---------------------------- MODULE Spec2Model ----------------------------
(***************************************************************************)
(* A model of the api_tester load-testing harness:                         *)
(*   - the request executor (src/src/api/client.py),                       *)
(*   - the stage runner, load engine and stress engine                     *)
(*     (src/src/engine/load_test.py),                                      *)
(*   - the session store (src/src/stats/analyzer.py).                      *)
(* The program runs on one asyncio event loop: code between two awaits is  *)
(* one atomic step, and every action below is one such step.               *)
(***************************************************************************)
EXTENDS Integers, Sequences, FiniteSets, TLC

(***************************************************************************)
(* Bounds of the model.                                                    *)
(***************************************************************************)
MaxConcurrent == 2
MaxRequests == 3
NumPrompts == 2
MaxLevels == 2
MaxLoadRequests == 2
MaxStages == 2
MaxSaves == 2
MaxClock == 3
MaxWorkers == 3

VARIABLES
    \* ---- stage runner: LoadTestEngine.run_concurrent_requests ----
    concurrent_level,   \* argument C
    total_requests,     \* argument N
    semaphore,          \* asyncio.Semaphore._value
    runPc,              \* position of the runner coroutine
    batch_i,            \* loop variable i of the batch loop
    results,            \* the list `results` of the runner
    tpc,                \* position of each bounded_request task
    texec,              \* which executor a task runs: "real" or "raising"
    attempts,           \* HTTP POSTs issued so far by a task's make_request
    raised,             \* attempts of a task that ended by raising
    sleeps,             \* backoff waits of a task
    tprompt,            \* the prompt a task drew
    ttimestamp,         \* `timestamp` of a task's send_single_request
    tstart,             \* `start_time` of a task's current make_request attempt
    tres,               \* a finished task's result (outcome or exception)
    received,           \* the response a task's POST received, if any
    escaped,            \* the exception raised inside a task's try block
    current_index,      \* PromptManager.current_index
    render_ok,          \* whether api_kwargs satisfy the profile's placeholders
    completed,          \* the tasks of the stage in the order they finished
    progress_callback,  \* whether LoadTestEngine.progress_callback is set
    progress_calls,     \* the arguments of the callback's calls, in order
    first_index,        \* the prompt cursor when run_concurrent_requests began
    \* ---- load engine: LoadTestEngine.run_load_test ----
    concurrent_levels,  \* argument L
    ramp_up_time,       \* argument R
    cool_down_time,     \* argument D
    loadPc,             \* position of run_load_test
    level_i,            \* loop variable i (1-based)
    requests_per_level, \* argument N
    loadResults,        \* the list `results` of run_load_test
    tstage,             \* the stage index a task was issued in
    idles,              \* log of idle periods: <<kind, level index>>
    \* ---- stress engine: StressTestEngine.run_stress_test ----
    now,                \* time.time()
    end_time,           \* start_time + duration_seconds
    duration_seconds,   \* argument T
    max_concurrent,     \* argument C
    stressPc,           \* position of run_stress_test
    wpc,                \* position of each continuous_request coroutine
    stressSem,          \* the stress semaphore's value
    stressResults,      \* the list `results` of run_stress_test
    started,            \* clock readings at which executions were started
    stressOut,          \* the analyzed stage result of the stress run
    \* ---- session store: TestDatabase ----
    test_sessions,      \* table test_sessions, in rowid order
    session_seq,        \* the last rowid AUTOINCREMENT gave to test_sessions
    load_test_results,  \* table load_test_results, in rowid order
    request_results,    \* table request_results, in rowid order
    network_stats_table, \* table network_stats, in rowid order
    lastSave,           \* the last save_test_session call and what preceded it
    save_calls,         \* number of save_test_session calls made
    \* ---- endpoint profile: APIEndpoint ----
    request_format,     \* the profile's body template
    api_kwargs,         \* the params of a render: the placeholder names given
    render_prompt,      \* the prompt text of a render
    rendered_body,      \* what format_request_body returned, if it was called
    profile,            \* the profile's base_url, endpoints and headers templates
    rendered_text,      \* what format_url or format_headers returned or raised
    render_log,         \* the render calls made: <<method, prompt>>
    \* ---- prompt source: PromptManager ----
    prompts,            \* PromptManager.prompts
    prompt_calls,       \* get_next_prompt calls returned since the cursor was 0
    handed,             \* the prompts get_next_prompt returned, in order
    cpc,                \* position of each thread inside get_next_prompt
    cprompt,            \* a thread's local `prompt`
    cidx,               \* the current_index a thread loaded for the increment
    \* ---- token parsing and stage analysis, called on their own ----
    response_content,   \* the argument of _extract_token_info
    token_info,         \* what _extract_token_info returned, if it was called
    outcomes,           \* the argument `results` of analyze_results
    analyze_level,      \* the argument `concurrent_level` of analyze_results
    analysis,           \* what analyze_results returned, if it was called
    \* ---- host prober: NetworkMonitor, and the session that controls it ----
    monitoring,         \* NetworkMonitor.monitoring
    ping_results,       \* NetworkMonitor.ping_results: target -> samples
    targets,            \* argument `targets` of start_monitoring
    method,             \* argument `method` of start_monitoring
    monPc,              \* position of the start_monitoring task
    ping_tasks,         \* the round's ping_host tasks: pending, or their result
    rounds,             \* probe rounds started so far
    round_limit,        \* rounds the run is followed for
    network,            \* the probe endings the environment produces
    sessPc,             \* position of the session around the prober
    stop_round,         \* the round in flight when stop_monitoring was called
    stop_pc,            \* where the prober task was when stop_monitoring was called
    network_stats,      \* what get_all_stats returned to the session
    \* ---- session analyzer: DataAnalyzer ----
    query,              \* the last DataAnalyzer call: its name and session_id
    answer              \* what that call returned, or the exception it raised

stageVars == <<concurrent_level, total_requests, semaphore, runPc, batch_i,
               results, tpc, texec, attempts, raised, sleeps, tprompt,
               ttimestamp, tstart, tres, received, escaped, current_index,
               render_ok, tstage, completed, progress_callback,
               progress_calls, first_index>>
loadVars == <<concurrent_levels, ramp_up_time, cool_down_time, loadPc,
              level_i, requests_per_level, loadResults, idles>>
stressVars == <<now, end_time, duration_seconds, max_concurrent, stressPc,
                wpc, stressSem, stressResults, started, stressOut>>
storeVars == <<test_sessions, session_seq, load_test_results, request_results,
               network_stats_table, lastSave, save_calls>>
renderVars == <<request_format, api_kwargs, render_prompt, rendered_body,
                profile, rendered_text, render_log>>
promptVars == <<prompts, prompt_calls, handed, cpc, cprompt, cidx>>
monVars == <<monitoring, ping_results, targets, method, monPc, ping_tasks,
             rounds, round_limit, network, sessPc, stop_round, stop_pc,
             network_stats>>
analyzerVars == <<query, answer>>
unitVars == <<renderVars, promptVars, response_content, token_info, outcomes,
              analyze_level, analysis, monVars, analyzerVars>>
vars == <<stageVars, loadVars, stressVars, storeVars, unitVars>>

Min(a, b) == IF a <= b THEN a ELSE b

Range(s) == {s[i] : i \in 1..Len(s)}

(***************************************************************************)
(* Response bodies.  A body is its text, the text's length and what        *)
(* json.loads makes of it; Absent marks a key the usage object lacks.      *)
(***************************************************************************)
Absent == 0 - 1

NoUsage ==
    [kind |-> "absent", prompt_tokens |-> Absent, completion_tokens |-> Absent,
     total_tokens |-> Absent, input_tokens |-> Absent, output_tokens |-> Absent]

\* the text `oops`: not JSON
BodyNotJson == [text |-> "oops", text_len |-> 4, kind |-> "invalid", usage |-> NoUsage]
\* the text `null`: JSON, but no container
BodyNull == [text |-> "null", text_len |-> 4, kind |-> "null", usage |-> NoUsage]
\* the text `{}`
BodyEmptyObject == [text |-> "{}", text_len |-> 2, kind |-> "object", usage |-> NoUsage]
\* the text `{"usage":{"prompt_tokens":1,"completion_tokens":2,"total_tokens":3}}`
BodyOpenAI ==
    [text |-> "{usage:{prompt_tokens:1,completion_tokens:2,total_tokens:3}}",
     text_len |-> 68, kind |-> "object",
     usage |-> [kind |-> "dict", prompt_tokens |-> 1, completion_tokens |-> 2,
                total_tokens |-> 3, input_tokens |-> Absent,
                output_tokens |-> Absent]]

\* what the server may answer: <<status, body>>
StageResponses == {200, 500} \X {BodyNotJson, BodyNull, BodyOpenAI}
LoadResponses == {<<200, BodyOpenAI>>, <<500, BodyNotJson>>}

(***************************************************************************)
(* APIRequestManager._extract_token_info: the token triple, or the         *)
(* exception that escapes it.  Only JSONDecodeError and KeyError are       *)
(* caught; `'usage' in x` on a JSON null or number, and                    *)
(* `'prompt_tokens' in u` on such a usage value, raise TypeError.          *)
(***************************************************************************)
\* a lookup that forgets the default
GetNoDefault(v, default) == v

\* usage.get(key, default)
Get(v, default) == IF v = Absent THEN default ELSE v

Tokens(i, o, t) == [exc |-> "None", input_tokens |-> i, output_tokens |-> o,
                    total_tokens |-> t]

_extract_token_info(body) ==
    CASE body.kind = "invalid" -> Tokens(0, 0, 0)
      [] body.kind \in {"null", "number"} ->
            [Tokens(0, 0, 0) EXCEPT !.exc = "TypeError"]
      [] body.kind \in {"list", "string"} -> Tokens(0, 0, 0)
      [] OTHER ->
            LET usage == body.usage IN
            CASE usage.kind = "absent" -> Tokens(0, 0, 0)
              [] usage.kind \in {"null", "number"} ->
                    [Tokens(0, 0, 0) EXCEPT !.exc = "TypeError"]
              [] usage.kind \in {"list", "string"} -> Tokens(0, 0, 0)
              [] OTHER ->
                    IF usage.prompt_tokens # Absent
                    THEN Tokens(usage.prompt_tokens,
                                Get(usage.completion_tokens, 0),
                                Get(usage.total_tokens, 0))
                    ELSE IF usage.input_tokens # Absent
                    THEN Tokens(usage.input_tokens,
                                Get(usage.output_tokens, 0),
                                usage.input_tokens + Get(usage.output_tokens, 0))
                    ELSE Tokens(0, 0, 0)

(***************************************************************************)
(* RequestResult, with its eleven fields.  prompt is an index into the     *)
(* prompt list, 0 for the empty string; error_message is "None" or the     *)
(* exception's text.  A task's result is a RequestResult (raises = "None") *)
(* or an exception.                                                        *)
(***************************************************************************)
RequestResult(ts, p, lat, status, ok, content, err, tok, len) ==
    [raises |-> "None", timestamp |-> ts, prompt |-> p, response_time |-> lat,
     status_code |-> status, success |-> ok, response_content |-> content,
     error_message |-> err, input_tokens |-> tok.input_tokens,
     output_tokens |-> tok.output_tokens, total_tokens |-> tok.total_tokens,
     content_length |-> len]

NoResult == RequestResult(0, 0, 0, 0 - 1, FALSE, "", "None", Tokens(0, 0, 0), 0)

Raised(exc) == [NoResult EXCEPT !.raises = exc]

\* an except branch that lets the exception go on to the caller
OnExceptionReraises(ts, p, exc) == Raised(exc)

\* the except branch of send_single_request
OnException(ts, p, exc) ==
    RequestResult(ts, p, now - ts, 0, FALSE, "", exc, Tokens(0, 0, 0), 0)

\* a success flag that takes every answered request for a success
SuccessAnyStatus(status_code) == status_code >= 200

\* success=200 <= status_code < 300
Success2xx(status_code) == 200 <= status_code /\ status_code < 300

\* the try branch of send_single_request once make_request has returned
\* (status, response_text, response_time)
OnResponse(ts, p, lat, status, body) ==
    LET tok == _extract_token_info(body) IN
    IF tok.exc # "None"
    THEN OnException(ts, p, tok.exc)
    ELSE RequestResult(ts, p, lat, status, Success2xx(status),
                       body.text, "None", tok, body.text_len)

\* a synthesized record that drops the exception's text
FailedResultNoMessage(exc) ==
    RequestResult(now, 0, 0, 0, FALSE, "", "None", Tokens(0, 0, 0), 0)

\* the record the runner synthesizes for a task that raised
FailedResult(exc) ==
    RequestResult(now, 0, 0, 0, FALSE, "", exc, Tokens(0, 0, 0), 0)

\* the response make_request returns: status and the body text's length
Response(status, body) ==
    [status |-> status, text |-> body.text, text_len |-> body.text_len]

NoResponse == [status |-> 0 - 1, text |-> "", text_len |-> 0]

\* a retry policy that stops one attempt late
StopAfterAttemptLate(attempt_number) == attempt_number > 3

\* tenacity: stop_after_attempt(3)
StopAfterAttempt(attempt_number) == attempt_number >= 3


(***************************************************************************)
(* The stage runner, LoadTestEngine.run_concurrent_requests, and the       *)
(* bounded_request tasks it gathers.                                       *)
(***************************************************************************)
Tasks == 1..MaxRequests

\* batch_size = min(concurrent_level * 2, 100)
batch_size == Min(concurrent_level * 2, 100)

\* tasks[i:i + batch_size], as task numbers
batch_tasks == (batch_i + 1)..Min(batch_i + batch_size, total_requests)

\* tasks that hold a permit of the stage semaphore
InFlight == {t \in Tasks : tpc[t] \in {"running", "post", "backoff"}}

\* the state run_concurrent_requests starts from, for arguments C and N
StageEntry(C, N, execs) ==
    /\ concurrent_level' = C
    /\ total_requests' = N
    /\ semaphore' = C
    /\ runPc' = "dispatch"
    /\ batch_i' = 0
    /\ results' = <<>>
    /\ tpc' = [t \in Tasks |-> IF t <= N THEN "created" ELSE "none"]
    /\ texec' = execs
    /\ attempts' = [t \in Tasks |-> 0]
    /\ raised' = [t \in Tasks |-> 0]
    /\ sleeps' = [t \in Tasks |-> 0]
    /\ tprompt' = [t \in Tasks |-> 0]
    /\ ttimestamp' = [t \in Tasks |-> 0]
    /\ tstart' = [t \in Tasks |-> 0]
    /\ tres' = [t \in Tasks |-> NoResult]
    /\ received' = [t \in Tasks |-> NoResponse]
    /\ escaped' = [t \in Tasks |-> "None"]
    /\ tstage' = [t \in Tasks |-> 0]
    /\ completed' = <<>>
    /\ progress_calls' = <<>>
    /\ first_index' = current_index

\* run_concurrent_requests has returned: its locals and tasks are gone
StageExit ==
    /\ concurrent_level' = 1
    /\ total_requests' = 0
    /\ semaphore' = 1
    /\ runPc' = "idle"
    /\ batch_i' = 0
    /\ results' = <<>>
    /\ tpc' = [t \in Tasks |-> "none"]
    /\ texec' = [t \in Tasks |-> "real"]
    /\ attempts' = [t \in Tasks |-> 0]
    /\ raised' = [t \in Tasks |-> 0]
    /\ sleeps' = [t \in Tasks |-> 0]
    /\ tprompt' = [t \in Tasks |-> 0]
    /\ ttimestamp' = [t \in Tasks |-> 0]
    /\ tstart' = [t \in Tasks |-> 0]
    /\ tres' = [t \in Tasks |-> NoResult]
    /\ received' = [t \in Tasks |-> NoResponse]
    /\ escaped' = [t \in Tasks |-> "None"]
    /\ tstage' = [t \in Tasks |-> 0]
    /\ completed' = <<>>
    /\ progress_calls' = <<>>
    /\ first_index' = 0

\* the executors a stage's N requests may meet
Executors(N) ==
    {e \in [Tasks -> {"real", "raising"}] : \A t \in Tasks : t > N => e[t] = "real"}

\* for i in range(0, len(tasks), batch_size): asyncio.gather(*batch_tasks)
Dispatch ==
    /\ runPc = "dispatch"
    /\ batch_i < total_requests
    /\ runPc' = "gather"
    /\ tpc' = [t \in Tasks |-> IF t \in batch_tasks THEN "scheduled" ELSE tpc[t]]
    /\ tstage' = [t \in Tasks |-> IF t \in batch_tasks THEN level_i ELSE tstage[t]]
    /\ UNCHANGED <<concurrent_level, total_requests, semaphore, batch_i,
                   results, texec, attempts, raised, sleeps, tprompt,
                   ttimestamp, tstart, tres, received, escaped,
                   current_index, render_ok, progress_callback>>
    /\ UNCHANGED completed
    /\ UNCHANGED <<progress_calls, first_index>>
    /\ UNCHANGED <<loadVars, stressVars, storeVars, unitVars>>

\* a cursor advance that does not wrap
NextIndexNoWrap(i, L) == i + 1

\* (self.current_index + 1) % len(self.prompts)
NextIndex(i, L) == (i + 1) % L

\* an acquire that never waits
MayAcquireUnbounded == TRUE

\* async with semaphore: a permit is free
MayAcquire == semaphore > 0

\* a task passes `async with semaphore` and runs send_single_request up to
\* its first await: the prompt is drawn, the request rendered, the POST issued
TaskStart(t) ==
    /\ tpc[t] = "scheduled"
    /\ MayAcquire
    /\ IF texec[t] = "raising"
       THEN /\ tpc' = [tpc EXCEPT ![t] = "running"]
            /\ semaphore' = semaphore - 1
            /\ UNCHANGED <<current_index, tprompt, ttimestamp, tstart, tres,
                           attempts, escaped, completed>>
       ELSE /\ current_index' = NextIndex(current_index, Len(prompts))
            /\ tprompt' = [tprompt EXCEPT ![t] = prompts[current_index + 1]]
            /\ ttimestamp' = [ttimestamp EXCEPT ![t] = now]
            /\ IF render_ok
               THEN /\ tpc' = [tpc EXCEPT ![t] = "post"]
                    /\ attempts' = [attempts EXCEPT ![t] = 1]
                    /\ tstart' = [tstart EXCEPT ![t] = now]
                    /\ semaphore' = semaphore - 1
                    /\ UNCHANGED <<tres, escaped, completed>>
               ELSE \* format_url raises KeyError inside the try
                    /\ tpc' = [tpc EXCEPT ![t] = "done"]
                    /\ escaped' = [escaped EXCEPT ![t] = "KeyError"]
                    /\ tres' = [tres EXCEPT ![t] = OnException(now, prompts[current_index + 1], "KeyError")]
                    /\ completed' = Append(completed, t)
                    /\ UNCHANGED <<attempts, tstart, semaphore>>
    /\ UNCHANGED <<concurrent_level, total_requests, runPc, batch_i, results,
                   texec, raised, sleeps, received, render_ok, progress_callback, tstage>>
    /\ UNCHANGED <<progress_calls, first_index>>
    /\ UNCHANGED <<loadVars, stressVars, storeVars, unitVars>>

\* a permit that is not given back
ReleaseLeaks(s) == s

\* leaving `async with semaphore:`, by a return or by an exception
Release(s) == s + 1

\* an executor other than APIRequestManager lets an exception escape
ExecutorRaises(t) ==
    /\ tpc[t] = "running"
    /\ tpc' = [tpc EXCEPT ![t] = "done"]
    /\ tres' = [tres EXCEPT ![t] = Raised("InternalError")]
    /\ completed' = Append(completed, t)
    /\ semaphore' = Release(semaphore)
    /\ UNCHANGED <<concurrent_level, total_requests, runPc, batch_i, results,
                   texec, attempts, raised, sleeps, tprompt, ttimestamp,
                   tstart, received, escaped, current_index, render_ok, progress_callback,
                   tstage>>
    /\ UNCHANGED <<progress_calls, first_index>>
    /\ UNCHANGED <<loadVars, stressVars, storeVars, unitVars>>

\* the answers of the server in the scenario that runs
Responses == IF loadPc = "none" THEN StageResponses ELSE LoadResponses

\* session.post returns a response: make_request returns, the tokens are
\* parsed and the RequestResult is built
PostResponds(t) ==
    /\ tpc[t] = "post"
    /\ \E r \in Responses :
          /\ received' = [received EXCEPT ![t] = Response(r[1], r[2])]
          /\ escaped' = [escaped EXCEPT ![t] = _extract_token_info(r[2]).exc]
          /\ tres' = [tres EXCEPT ![t] =
                OnResponse(ttimestamp[t], tprompt[t], now - tstart[t], r[1], r[2])]
    /\ tpc' = [tpc EXCEPT ![t] = "done"]
    /\ completed' = Append(completed, t)
    /\ semaphore' = Release(semaphore)
    /\ UNCHANGED <<concurrent_level, total_requests, runPc, batch_i, results,
                   texec, attempts, raised, sleeps, tprompt, ttimestamp,
                   tstart, current_index, render_ok, progress_callback, tstage>>
    /\ UNCHANGED <<progress_calls, first_index>>
    /\ UNCHANGED <<loadVars, stressVars, storeVars, unitVars>>

\* session.post raises (transport failure, timeout): tenacity stops with
\* RetryError after the third attempt and sleeps before any other
PostRaises(t) ==
    /\ tpc[t] = "post"
    /\ raised' = [raised EXCEPT ![t] = @ + 1]
    /\ IF StopAfterAttempt(attempts[t])
       THEN /\ tpc' = [tpc EXCEPT ![t] = "done"]
            /\ escaped' = [escaped EXCEPT ![t] = "RetryError"]
            /\ tres' = [tres EXCEPT ![t] =
                  OnException(ttimestamp[t], tprompt[t], "RetryError")]
            /\ semaphore' = Release(semaphore)
            /\ completed' = Append(completed, t)
            /\ UNCHANGED sleeps
       ELSE /\ tpc' = [tpc EXCEPT ![t] = "backoff"]
            /\ sleeps' = [sleeps EXCEPT ![t] = @ + 1]
            /\ UNCHANGED <<tres, semaphore, escaped, completed>>
    /\ UNCHANGED <<concurrent_level, total_requests, runPc, batch_i, results,
                   texec, attempts, tprompt, ttimestamp, tstart, received,
                   current_index, render_ok, progress_callback, tstage>>
    /\ UNCHANGED <<progress_calls, first_index>>
    /\ UNCHANGED <<loadVars, stressVars, storeVars, unitVars>>

\* a retry that draws a prompt of its own
CursorAfterRetryRedrawn(i, L) == (i + 1) % L

\* the attempts are made by make_request with the request_body rendered
\* before the first one: get_next_prompt is not called again
CursorAfterRetry(i, L) == i

\* the backoff wait ends and the next attempt is issued
BackoffEnds(t) ==
    /\ tpc[t] = "backoff"
    /\ tpc' = [tpc EXCEPT ![t] = "post"]
    /\ attempts' = [attempts EXCEPT ![t] = @ + 1]
    /\ tstart' = [tstart EXCEPT ![t] = now]
    /\ current_index' = CursorAfterRetry(current_index, Len(prompts))
    /\ UNCHANGED <<concurrent_level, total_requests, semaphore, runPc,
                   batch_i, results, texec, raised, sleeps, tprompt,
                   ttimestamp, tres, received, escaped,
                   render_ok, progress_callback, tstage>>
    /\ UNCHANGED completed
    /\ UNCHANGED <<progress_calls, first_index>>
    /\ UNCHANGED <<loadVars, stressVars, storeVars, unitVars>>

\* a collection loop that skips the gathered exceptions
CollectedSkipsExceptions(r) == IF r.raises # "None" THEN <<>> ELSE <<r>>

\* what the collection loop appends for one gathered result
Collected(r) == IF r.raises # "None" THEN <<FailedResult(r.raises)>> ELSE <<r>>

RECURSIVE CollectFrom(_, _)
CollectFrom(t, last) ==
    IF t > last THEN <<>> ELSE Collected(tres[t]) \o CollectFrom(t + 1, last)

\* a callback called once for a whole batch
ProgressPerBatch(n, k) == IF k = 0 THEN <<>> ELSE <<<<n + k, total_requests>>>>

\* `self.progress_callback(len(results), total_requests)` after each of the
\* k appends of the collection loop, begun with n results
ProgressPerResult(n, k) == [j \in 1..k |-> <<n + j, total_requests>>]

\* a gather that returns with the first task of the batch that is done
GatheredFirstCompleted == \E t \in batch_tasks : tpc[t] = "done"

\* await asyncio.gather(*batch_tasks, return_exceptions=True) returns
Gathered == \A t \in batch_tasks : tpc[t] = "done"

\* gather returns once every task of the batch is done; the loop over
\* batch_results runs without an await
Collect ==
    /\ runPc = "gather"
    /\ Gathered
    /\ results' = results \o CollectFrom(batch_i + 1, Min(batch_i + batch_size, total_requests))
    /\ batch_i' = batch_i + batch_size
    /\ runPc' = "dispatch"
    /\ UNCHANGED <<concurrent_level, total_requests, semaphore, tpc, texec,
                   attempts, raised, sleeps, tprompt, ttimestamp, tstart,
                   tres, received, escaped, current_index, render_ok, progress_callback, tstage>>
    /\ UNCHANGED completed
    /\ progress_calls' =
          IF progress_callback
          THEN progress_calls \o ProgressPerResult(Len(results), Cardinality(batch_tasks))
          ELSE progress_calls
    /\ UNCHANGED first_index
    /\ UNCHANGED <<loadVars, stressVars, storeVars, unitVars>>

\* the batch loop is exhausted: return results
Return ==
    /\ runPc = "dispatch"
    /\ batch_i >= total_requests
    /\ runPc' = "returned"
    /\ UNCHANGED <<concurrent_level, total_requests, semaphore, batch_i,
                   results, tpc, texec, attempts, raised, sleeps, tprompt,
                   ttimestamp, tstart, tres, received, escaped,
                   current_index, render_ok, progress_callback, tstage>>
    /\ UNCHANGED completed
    /\ UNCHANGED <<progress_calls, first_index>>
    /\ UNCHANGED <<loadVars, stressVars, storeVars, unitVars>>

StageNext ==
    \/ Dispatch
    \/ \E t \in Tasks : TaskStart(t)
    \/ \E t \in Tasks : ExecutorRaises(t)
    \/ \E t \in Tasks : PostResponds(t)
    \/ \E t \in Tasks : PostRaises(t)
    \/ \E t \in Tasks : BackoffEnds(t)
    \/ Collect
    \/ Return

(***************************************************************************)
(* The load engine, LoadTestEngine.run_load_test, and the count part of    *)
(* analyze_results.                                                        *)
(***************************************************************************)
RECURSIVE SumSeq(_)
SumSeq(q) == IF q = <<>> THEN 0 ELSE Head(q) + SumSeq(Tail(q))

RECURSIVE MaxSeq(_)
MaxSeq(q) ==
    IF Len(q) = 1 THEN Head(q)
    ELSE IF Head(q) >= MaxSeq(Tail(q)) THEN Head(q) ELSE MaxSeq(Tail(q))

Map(q, Op(_)) == [i \in 1..Len(q) |-> Op(q[i])]

RECURSIVE MinSeq(_)
MinSeq(q) ==
    IF Len(q) = 1 THEN Head(q)
    ELSE IF Head(q) <= MinSeq(Tail(q)) THEN Head(q) ELSE MinSeq(Tail(q))

RECURSIVE CountSuccess(_)
CountSuccess(rs) ==
    IF rs = <<>> THEN 0
    ELSE (IF Head(rs).success THEN 1 ELSE 0) + CountSuccess(Tail(rs))

\* a quotient n / d kept exact, as <<n, d>>; `n / d if d > 0 else 0`
Quotient(n, d) == IF d > 0 THEN <<n, d>> ELSE <<0, 1>>

\* a timeout count over the failed outcomes only
TimedOutFailedOnly(r) == ~r.success /\ r.response_time > 1200

\* r.response_time > 1200
TimedOut(r) == r.response_time > 1200

\* the successful outcomes, whatever their latency
SuccessfulResultsAnyLatency(rs) == SelectSeq(rs, LAMBDA r : r.success)

\* successful_results = [r for r in results if r.success and r.response_time > 0]
SuccessfulResults(rs) == SelectSeq(rs, LAMBDA r : r.success /\ r.response_time > 0)

\* a percentile without interpolation: the sample at floor(k)
percentileNoInterpolation(data, p) ==
    <<data[((Len(data) - 1) * p) \div 100 + 1] * 100, 100>>

\* percentile(data, p) over the sorted data, as a quotient over 100:
\* k = (len - 1) * p / 100, f = int(k), c = k - f
percentile(data, p) ==
    LET k100 == (Len(data) - 1) * p
        f == k100 \div 100
        c100 == k100 % 100
    IN  IF f < Len(data) - 1
        THEN <<data[f + 1] * (100 - c100) + data[f + 2] * c100, 100>>
        ELSE <<data[f + 1] * 100, 100>>

analyze_results(rs, C) ==
    IF rs = <<>>
    THEN [concurrent_level |-> C, total_requests |-> 0,
          successful_requests |-> 0, failed_requests |-> 0,
          avg_response_time |-> <<0, 1>>, min_response_time |-> 0,
          max_response_time |-> 0, p50_response_time |-> <<0, 1>>,
          p95_response_time |-> <<0, 1>>, p99_response_time |-> <<0, 1>>,
          requests_per_second |-> <<0, 1>>, total_test_time |-> 0,
          error_rate |-> <<0, 1>>, timeout_count |-> 0, total_tokens |-> 0,
          avg_tokens_per_request |-> <<0, 1>>, tokens_per_second |-> <<0, 1>>,
          results |-> rs]
    ELSE
    LET total_requests_ == Len(rs)
        successful_requests_ == CountSuccess(rs)
        failed_requests_ == total_requests_ - successful_requests_
        successful_results == SuccessfulResults(rs)
        response_times ==
            SortSeq(Map(successful_results, LAMBDA r : r.response_time),
                    LAMBDA a, b : a < b)
        some == response_times # <<>>
        test_start_time == MinSeq(Map(rs, LAMBDA r : r.timestamp))
        test_end_time == MaxSeq(Map(rs, LAMBDA r : r.timestamp + r.response_time))
        total_test_time_ == test_end_time - test_start_time
        total_tokens_ == SumSeq(Map(successful_results, LAMBDA r : r.total_tokens))
    IN  [concurrent_level |-> C,
         total_requests |-> total_requests_,
         successful_requests |-> successful_requests_,
         failed_requests |-> failed_requests_,
         avg_response_time |->
             IF some THEN <<SumSeq(response_times), Len(response_times)>> ELSE <<0, 1>>,
         min_response_time |-> IF some THEN MinSeq(response_times) ELSE 0,
         max_response_time |-> IF some THEN MaxSeq(response_times) ELSE 0,
         p50_response_time |-> IF some THEN percentile(response_times, 50) ELSE <<0, 1>>,
         p95_response_time |-> IF some THEN percentile(response_times, 95) ELSE <<0, 1>>,
         p99_response_time |-> IF some THEN percentile(response_times, 99) ELSE <<0, 1>>,
         requests_per_second |-> Quotient(successful_requests_, total_test_time_),
         total_test_time |-> total_test_time_,
         error_rate |-> Quotient(failed_requests_, total_requests_),
         timeout_count |-> Len(SelectSeq(rs, TimedOut)),
         total_tokens |-> total_tokens_,
         avg_tokens_per_request |-> Quotient(total_tokens_, Len(successful_results)),
         tokens_per_second |-> Quotient(total_tokens_, total_test_time_),
         results |-> rs]

\* the engine goes on without awaiting the stage's return
StageReturnedNotAwaited == runPc \in {"dispatch", "gather", "returned"}

\* the engine awaits run_concurrent_requests: the stage has returned
StageReturned == runPc = "returned"

\* the call run_concurrent_requests(concurrent_level, requests_per_level)
CallStage ==
    \E execs \in Executors(requests_per_level) :
        StageEntry(concurrent_levels[level_i], requests_per_level, execs)

\* top of the loop over the levels: ramp-up if R > 0, else the stage call
LoadIter ==
    /\ loadPc = "loop"
    /\ level_i <= Len(concurrent_levels)
    /\ IF ramp_up_time > 0
       THEN /\ loadPc' = "ramp"
            /\ idles' = Append(idles, <<"ramp", level_i>>)
            /\ UNCHANGED <<stageVars>>
       ELSE /\ loadPc' = "stage"
            /\ CallStage
            /\ UNCHANGED <<idles, current_index, render_ok, progress_callback>>
    /\ UNCHANGED <<concurrent_levels, ramp_up_time, cool_down_time, level_i,
                   requests_per_level, loadResults>>
    /\ UNCHANGED <<stressVars, storeVars, unitVars>>

\* asyncio.sleep(ramp_up_time) ends: the stage is called
RampEnds ==
    /\ loadPc = "ramp"
    /\ loadPc' = "stage"
    /\ CallStage
    /\ UNCHANGED <<current_index, render_ok, progress_callback>>
    /\ UNCHANGED <<concurrent_levels, ramp_up_time, cool_down_time, level_i,
                   requests_per_level, loadResults, idles>>
    /\ UNCHANGED <<stressVars, storeVars, unitVars>>

\* a cool-down after every level, the last one too
CoolsDownAfterLast == cool_down_time > 0

\* `if cool_down_time > 0 and i < len(concurrent_levels) - 1:`
CoolsDown == cool_down_time > 0 /\ level_i < Len(concurrent_levels)

\* the stage returned: analyze, append, then cool down or take the next level
StageAnalyzed ==
    /\ loadPc = "stage"
    /\ StageReturned
    /\ loadResults' = Append(loadResults, analyze_results(results, concurrent_levels[level_i]))
    /\ StageExit
    /\ IF CoolsDown
       THEN /\ loadPc' = "cool"
            /\ idles' = Append(idles, <<"cool", level_i>>)
            /\ UNCHANGED level_i
       ELSE /\ loadPc' = "loop"
            /\ level_i' = level_i + 1
            /\ UNCHANGED idles
    /\ UNCHANGED <<current_index, render_ok, progress_callback>>
    /\ UNCHANGED <<concurrent_levels, ramp_up_time, cool_down_time,
                   requests_per_level>>
    /\ UNCHANGED <<stressVars, storeVars, unitVars>>

\* asyncio.sleep(cool_down_time) ends
CoolEnds ==
    /\ loadPc = "cool"
    /\ loadPc' = "loop"
    /\ level_i' = level_i + 1
    /\ UNCHANGED <<concurrent_levels, ramp_up_time, cool_down_time,
                   requests_per_level, loadResults, idles>>
    /\ UNCHANGED <<stageVars, stressVars, storeVars, unitVars>>

\* the loop over the levels is exhausted: return results
LoadReturn ==
    /\ loadPc = "loop"
    /\ level_i > Len(concurrent_levels)
    /\ loadPc' = "done"
    /\ UNCHANGED <<concurrent_levels, ramp_up_time, cool_down_time, level_i,
                   requests_per_level, loadResults, idles>>
    /\ UNCHANGED <<stageVars, stressVars, storeVars, unitVars>>

LoadNext ==
    \/ LoadIter
    \/ RampEnds
    \/ StageAnalyzed
    \/ CoolEnds
    \/ LoadReturn
    \/ StageNext

(***************************************************************************)
(* The stress engine, StressTestEngine.run_stress_test.  tasks holds       *)
(* coroutine objects: a continuous_request coroutine first runs when       *)
(* asyncio.gather wraps it in a task, after the monitor loop.              *)
(***************************************************************************)
Workers == 1..MaxWorkers

\* the outcomes an execution of a stress worker may append
StressOutcomes ==
    {OnResponse(now, 1, 0, 200, BodyOpenAI), OnException(now, 1, "RetryError")}

\* a deadline check that still passes at the deadline itself
WorkerSeesDeadlineLate(t) == t > end_time

\* a worker's deadline check reads a clock at or past end_time:
\* not (time.time() < end_time), time.time() >= end_time
WorkerSeesDeadline(t) == t >= end_time

\* time passes
Tick ==
    /\ stressPc \in {"monitor", "sleeping", "gather"}
    /\ now < MaxClock
    /\ now' = now + 1
    /\ UNCHANGED <<end_time, duration_seconds, max_concurrent, stressPc, wpc,
                   stressSem, stressResults, started, stressOut>>
    /\ UNCHANGED <<stageVars, loadVars, storeVars, unitVars>>

\* while time.time() < end_time: sleep 0.1; once the loop ends,
\* asyncio.gather(*tasks) schedules the C coroutines
MonitorLoop ==
    /\ stressPc = "monitor"
    /\ IF now < end_time
       THEN /\ stressPc' = "sleeping"
            /\ UNCHANGED wpc
       ELSE /\ stressPc' = "gather"
            /\ wpc' = [w \in Workers |-> IF w <= max_concurrent THEN "scheduled" ELSE "none"]
    /\ UNCHANGED <<now, end_time, duration_seconds, max_concurrent, stressSem,
                   stressResults, started, stressOut>>
    /\ UNCHANGED <<stageVars, loadVars, storeVars, unitVars>>

\* asyncio.sleep(0.1) ends
MonitorWakes ==
    /\ stressPc = "sleeping"
    /\ stressPc' = "monitor"
    /\ UNCHANGED <<now, end_time, duration_seconds, max_concurrent, wpc,
                   stressSem, stressResults, started, stressOut>>
    /\ UNCHANGED <<stageVars, loadVars, storeVars, unitVars>>

\* one step of continuous_request:
\*   scheduled: the while test, then the acquire or the wait for a permit
\*   waiting:   a permit is free; acquire, then the test after the acquire
\*   exec:      the execution ends; append, release, back to the while test
WorkerStep(w) ==
    /\ wpc[w] \in {"scheduled", "waiting", "exec"}
    /\ CASE wpc[w] = "scheduled" ->
              IF WorkerSeesDeadline(now)
              THEN /\ wpc' = [wpc EXCEPT ![w] = "finished"]
                   /\ UNCHANGED <<stressSem, stressResults, started>>
              ELSE IF stressSem > 0
              THEN \* acquired without a wait: the second test reads the same clock
                   /\ wpc' = [wpc EXCEPT ![w] = "exec"]
                   /\ stressSem' = stressSem - 1
                   /\ started' = started \cup {now}
                   /\ UNCHANGED stressResults
              ELSE /\ wpc' = [wpc EXCEPT ![w] = "waiting"]
                   /\ UNCHANGED <<stressSem, stressResults, started>>
         [] wpc[w] = "waiting" ->
              /\ stressSem > 0
              /\ IF WorkerSeesDeadline(now)
                 THEN \* break: the permit is taken and given back
                      /\ wpc' = [wpc EXCEPT ![w] = "finished"]
                      /\ UNCHANGED <<stressSem, stressResults, started>>
                 ELSE /\ wpc' = [wpc EXCEPT ![w] = "exec"]
                      /\ stressSem' = stressSem - 1
                      /\ started' = started \cup {now}
                      /\ UNCHANGED stressResults
         [] OTHER ->
              /\ \E r \in StressOutcomes : stressResults' = Append(stressResults, r)
              /\ wpc' = [wpc EXCEPT ![w] = "scheduled"]
              /\ stressSem' = stressSem + 1
              /\ UNCHANGED started
    /\ UNCHANGED <<now, end_time, duration_seconds, max_concurrent, stressPc,
                   stressOut>>
    /\ UNCHANGED <<stageVars, loadVars, storeVars, unitVars>>

\* an engine that does not wait for its workers
WorkersGatheredAtOnce == TRUE

\* await asyncio.gather(*tasks, return_exceptions=True) returns
WorkersGathered ==
    \A w \in Workers : w <= max_concurrent => wpc[w] = "finished"

\* gather returns once every worker has finished; the results are analyzed
StressAnalyzed ==
    /\ stressPc = "gather"
    /\ WorkersGathered
    /\ stressOut' = <<analyze_results(stressResults, max_concurrent)>>
    /\ stressPc' = "done"
    /\ UNCHANGED <<now, end_time, duration_seconds, max_concurrent, wpc,
                   stressSem, stressResults, started>>
    /\ UNCHANGED <<stageVars, loadVars, storeVars, unitVars>>

StressNext ==
    \/ Tick
    \/ MonitorLoop
    \/ MonitorWakes
    \/ \E w \in Workers : WorkerStep(w)
    \/ StressAnalyzed

(***************************************************************************)
(* The session store, TestDatabase, on a fresh database file.  A table is  *)
(* the sequence of its rows in rowid order.  Of the stage aggregates the   *)
(* model keeps the counts, avg_response_time, requests_per_second and      *)
(* total_tokens; the others are written and read in the same way.  Times   *)
(* are in milliseconds.                                                    *)
(***************************************************************************)
RECURSIVE Flatten(_)
Flatten(qq) == IF qq = <<>> THEN <<>> ELSE Head(qq) \o Flatten(Tail(qq))

\* the fields of the dataclass LoadTestResult, as far as the model keeps them
LoadTestResultFields ==
    {"concurrent_level", "total_requests", "successful_requests",
     "failed_requests", "avg_response_time", "requests_per_second",
     "total_tokens", "results"}

\* the columns of a load_test_results row, as far as the model keeps them
StageRow(id, sid, st) ==
    [id |-> id, session_id |-> sid, concurrent_level |-> st.concurrent_level,
     total_requests |-> st.total_requests,
     successful_requests |-> st.successful_requests,
     failed_requests |-> st.failed_requests,
     avg_response_time |-> st.avg_response_time,
     requests_per_second |-> st.requests_per_second,
     total_tokens |-> st.total_tokens]

\* the columns of a request_results row; success is stored as 0 or 1 and
\* response_content is no column
RequestRow(id, sid, level, r) ==
    [id |-> id, session_id |-> sid, concurrent_level |-> level,
     timestamp |-> r.timestamp, prompt |-> r.prompt,
     response_time |-> r.response_time, status_code |-> r.status_code,
     success |-> IF r.success THEN 1 ELSE 0, error_message |-> r.error_message,
     input_tokens |-> r.input_tokens, output_tokens |-> r.output_tokens,
     total_tokens |-> r.total_tokens, content_length |-> r.content_length]

\* the header row; statistics.mean is kept exact, as <<sum, count>>
SessionRow(id, sid, load_results) ==
    LET avgs == SelectSeq(Map(load_results, LAMBDA r : r.avg_response_time),
                          LAMBDA a : a > 0)
    IN  [id |-> id, session_id |-> sid,
         total_requests |-> SumSeq(Map(load_results, LAMBDA r : r.total_requests)),
         successful_requests |->
             SumSeq(Map(load_results, LAMBDA r : r.successful_requests)),
         failed_requests |-> SumSeq(Map(load_results, LAMBDA r : r.failed_requests)),
         avg_response_time |-> <<SumSeq(avgs), Len(avgs)>>,
         max_concurrent |->
             IF load_results = <<>> THEN 0
             ELSE MaxSeq(Map(load_results, LAMBDA r : r.concurrent_level))]

\* statistics.mean of an empty list raises StatisticsError
MeanRaises(load_results) ==
    \A i \in 1..Len(load_results) : ~(load_results[i].avg_response_time > 0)

\* the rows the stage and request INSERTs add, numbered from the tables' ends
NewStageRows(sid, load_results) ==
    [i \in 1..Len(load_results) |->
        StageRow(Len(load_test_results) + i, sid, load_results[i])]

NewRequestRows(sid, load_results) ==
    LET flat == Flatten([i \in 1..Len(load_results) |->
                    [j \in 1..Len(load_results[i].results) |->
                        <<load_results[i].concurrent_level, load_results[i].results[j]>>]])
    IN  [k \in 1..Len(flat) |->
            RequestRow(Len(request_results) + k, sid, flat[k][1], flat[k][2])]

\* a prompt that sqlite3 cannot bind as a parameter: a list, not text
UnbindablePrompt == 0 - 2

Bindable(r) == r.prompt # UnbindablePrompt

\* whether a request INSERT raises
InsertRaises(load_results) ==
    \E i \in 1..Len(load_results) : \E j \in 1..Len(load_results[i].results) :
        ~Bindable(load_results[i].results[j])

\* the stages and requests whose INSERT is executed: all of them, or those
\* before the first request INSERT that raises
Attempted(load_results) ==
    IF ~InsertRaises(load_results) THEN load_results
    ELSE LET bad(i) == {j \in 1..Len(load_results[i].results) :
                            ~Bindable(load_results[i].results[j])}
             i == CHOOSE k \in 1..Len(load_results) :
                      bad(k) # {} /\ \A m \in 1..(k - 1) : bad(m) = {}
             j == CHOOSE k \in bad(i) : \A m \in bad(i) : k <= m
         IN  Append(SubSeq(load_results, 1, i - 1),
                    [load_results[i] EXCEPT
                        !.results = SubSeq(load_results[i].results, 1, j - 1)])

\* network_stats.items(): a host and its NetworkStats; `readable` is whether
\* the object has the attributes the INSERT reads
HostStats(host, total, ok, readable) ==
    [host |-> host, total_pings |-> total, successful_pings |-> ok,
     success_rate |-> Quotient(ok, total), avg_response_time |-> <<0, 1>>,
     packet_loss |-> Quotient(total - ok, total), jitter |-> <<0, 1>>,
     readable |-> readable]

NetworkRow(id, sid, ts, st) ==
    [id |-> id, session_id |-> sid, host |-> st.host, timestamp |-> ts,
     total_pings |-> st.total_pings, successful_pings |-> st.successful_pings,
     success_rate |-> st.success_rate, avg_response_time |-> st.avg_response_time,
     packet_loss |-> st.packet_loss, jitter |-> st.jitter]

NetworkRaises(net) == \E i \in 1..Len(net) : ~net[i].readable

\* the hosts whose INSERT is executed
AttemptedHosts(net) ==
    IF ~NetworkRaises(net) THEN net
    ELSE LET i == CHOOSE k \in 1..Len(net) :
                      ~net[k].readable /\ \A m \in 1..(k - 1) : net[m].readable
         IN  SubSeq(net, 1, i - 1)

NewNetworkRows(sid, net) ==
    [i \in 1..Len(net) |->
        NetworkRow(Len(network_stats_table) + i, sid, save_calls + 1, net[i])]

\* save_test_session issues no DELETE: the rows of earlier saves stay
OldRows(rows, sid) == rows

(***************************************************************************)
(* The queries.                                                            *)
(***************************************************************************)
\* get_test_sessions: every header row (ORDER BY start_time leaves the
\* order of the model's sessions open)
get_test_sessions == Range(test_sessions)

RECURSIVE OrderByLevel(_)
OrderByLevel(rows) ==
    IF rows = <<>> THEN <<>>
    ELSE LET lo == CHOOSE l \in {r.concurrent_level : r \in Range(rows)} :
                       \A r \in Range(rows) : l <= r.concurrent_level
         IN  SelectSeq(rows, LAMBDA r : r.concurrent_level = lo)
                 \o OrderByLevel(SelectSeq(rows, LAMBDA r : r.concurrent_level # lo))

\* RequestResult(...) from a request_results row
RequestFromRow(q) ==
    RequestResult(q.timestamp, q.prompt, q.response_time, q.status_code,
                  q.success # 0, "", q.error_message,
                  [exc |-> "None", input_tokens |-> q.input_tokens,
                   output_tokens |-> q.output_tokens,
                   total_tokens |-> q.total_tokens],
                  q.content_length)

\* SELECT * FROM request_results WHERE session_id = ? AND concurrent_level = ?
RequestsOf(sid, level) ==
    Map(SelectSeq(request_results,
                  LAMBDA q : q.session_id = sid /\ q.concurrent_level = level),
        RequestFromRow)

\* row_dict = dict(row) of SELECT *: every column, id and session_id too
RowDict(row_dict) == row_dict

\* LoadTestResult(**row_dict): a keyword that is no field raises TypeError
LoadTestResultInit(row_dict) ==
    IF DOMAIN row_dict = LoadTestResultFields
    THEN [raises |-> "None", value |-> <<row_dict>>]
    ELSE [raises |-> "TypeError", value |-> <<>>]

RECURSIVE BuildStages(_, _)
BuildStages(sid, rows) ==
    IF rows = <<>> THEN [raises |-> "None", value |-> <<>>]
    ELSE LET row_dict == RowDict(Head(rows)) @@
                           [results |-> RequestsOf(sid, Head(rows).concurrent_level)]
             first == LoadTestResultInit(row_dict)
             rest == BuildStages(sid, Tail(rows))
         IN  IF first.raises # "None" THEN first
             ELSE IF rest.raises # "None" THEN rest
             ELSE [raises |-> "None", value |-> first.value \o rest.value]

get_load_test_results(sid) ==
    BuildStages(sid, OrderByLevel(SelectSeq(load_test_results,
                                            LAMBDA r : r.session_id = sid)))

\* generate_summary_stats: the header, the sums over the stage rows and the
\* error distribution; SUM over no rows is NULL and `None > 0` raises
generate_summary_stats(sid) ==
    LET rows == SelectSeq(load_test_results, LAMBDA r : r.session_id = sid)
        failed == SelectSeq(request_results,
                      LAMBDA q : q.session_id = sid /\ q.success = 0
                                   /\ q.error_message # "None")
        msgs == {q.error_message : q \in Range(failed)}
    IN  IF rows = <<>>
        THEN [raises |-> "TypeError", session_info |-> {}, total_requests |-> 0,
              successful_requests |-> 0, failed_requests |-> 0,
              error_distribution |-> {}]
        ELSE [raises |-> "None",
              session_info |-> {h \in Range(test_sessions) : h.session_id = sid},
              total_requests |-> SumSeq(Map(rows, LAMBDA r : r.total_requests)),
              successful_requests |->
                  SumSeq(Map(rows, LAMBDA r : r.successful_requests)),
              failed_requests |-> SumSeq(Map(rows, LAMBDA r : r.failed_requests)),
              error_distribution |->
                  {<<m, Len(SelectSeq(failed, LAMBDA q : q.error_message = m))>> :
                      m \in msgs}]

(***************************************************************************)
(* DataAnalyzer: the analyses over the stored rows.  An answer is the      *)
(* exception raised, whether the dict returned is {"message": ...}, and    *)
(* otherwise the dict.                                                     *)
(***************************************************************************)
NoData == [raises |-> "None", message |-> TRUE, value |-> <<>>]

\* the 0.1 s added to the mean latency of a stage
ScoreOffset == 100

\* a score that is requests_per_second over the mean latency alone
efficiency_scoreNoOffset(r) ==
    <<r.requests_per_second * 1000, r.avg_response_time>>

\* df['efficiency_score'] of a row: requests_per_second /
\* (avg_response_time + 0.1), as <<numerator, denominator>> per second
efficiency_score(r) ==
    <<r.requests_per_second * 1000, r.avg_response_time + ScoreOffset>>

\* a < b for two such fractions
ScoreLess(a, b) == a[1] * b[2] < b[1] * a[2]

\* the columns the SELECT of analyze_concurrency_impact names
ImpactRow(r) ==
    [concurrent_level |-> r.concurrent_level,
     avg_response_time |-> r.avg_response_time,
     requests_per_second |-> r.requests_per_second,
     total_tokens |-> r.total_tokens]

\* df['efficiency_score'].idxmax(): the first row with the greatest score
ScoreIdxmax(df) ==
    CHOOSE i \in 1..Len(df) :
        /\ \A j \in 1..Len(df) :
               ~ScoreLess(efficiency_score(df[i]), efficiency_score(df[j]))
        /\ \A j \in 1..(i - 1) :
               ScoreLess(efficiency_score(df[j]), efficiency_score(df[i]))

\* df['requests_per_second'].idxmax()
ThroughputIdxmax(df) ==
    CHOOSE i \in 1..Len(df) :
        /\ \A j \in 1..Len(df) :
               df[j].requests_per_second <= df[i].requests_per_second
        /\ \A j \in 1..(i - 1) :
               df[j].requests_per_second < df[i].requests_per_second

\* df['avg_response_time'].idxmin()
LatencyIdxmin(df) ==
    CHOOSE i \in 1..Len(df) :
        /\ \A j \in 1..Len(df) :
               df[i].avg_response_time <= df[j].avg_response_time
        /\ \A j \in 1..(i - 1) :
               df[i].avg_response_time < df[j].avg_response_time

\* a search for the decline made whenever there are two rows to compare
DeclineSoughtFromTwo(df) == Len(df) >= 2

\* `if len(df) > 2:`
DeclineSought(df) == Len(df) > 2

\* the loop over range(1, len(df)): the row before the first one whose
\* requests_per_second is below 0.95 of its predecessor's
DeclinePoint(df) ==
    LET hits == {i \in 2..Len(df) :
                    100 * df[i].requests_per_second
                        < 95 * df[i - 1].requests_per_second}
    IN  IF hits = {} THEN <<>>
        ELSE <<df[(CHOOSE i \in hits : \A k \in hits : i <= k) - 1]>>

analyze_concurrency_impact(sid) ==
    LET df == Map(OrderByLevel(SelectSeq(load_test_results,
                                         LAMBDA r : r.session_id = sid)),
                  ImpactRow)
    IN  IF df = <<>> THEN NoData
        ELSE [raises |-> "None", message |-> FALSE,
              value |-> <<[optimal_concurrency |-> df[ScoreIdxmax(df)],
                           max_throughput |-> df[ThroughputIdxmax(df)],
                           min_latency |-> df[LatencyIdxmin(df)],
                           data |-> df,
                           throughput_decline_point |->
                               IF DeclineSought(df) THEN DeclinePoint(df)
                               ELSE <<>>]>>]

\* analyze_performance_trends(): one row per day and API of the header
\* rows of the last 30 days.  The model's sessions are of one API and one
\* day and have requests, so there is one row and no trend is fitted.
analyze_performance_trends ==
    IF test_sessions = <<>> THEN NoData
    ELSE [raises |-> "None", message |-> FALSE,
          value |-> <<[data |-> 1, trends |-> {},
                       total_tests |-> Len(test_sessions)]>>]

\* compare_apis(): one row per API of the header rows of the last 30 days
compare_apis ==
    IF test_sessions = <<>> THEN NoData
    ELSE [raises |-> "None", message |-> FALSE,
          value |-> <<[comparison |-> 1,
                       test_count |-> Len(test_sessions),
                       total_requests |->
                           SumSeq(Map(test_sessions,
                                      LAMBDA h : h.total_requests))]>>]

otherThanAnalyzer == <<stageVars, loadVars, stressVars, storeVars, renderVars,
                       promptVars, response_content, token_info, outcomes,
                       analyze_level, analysis, monVars>>

AnalyzeConcurrencyImpact(sid) ==
    /\ query' = [name |-> "analyze_concurrency_impact", session_id |-> sid]
    /\ answer' = analyze_concurrency_impact(sid)
    /\ UNCHANGED otherThanAnalyzer

GenerateSummaryStats(sid) ==
    /\ query' = [name |-> "generate_summary_stats", session_id |-> sid]
    /\ answer' = [raises |-> generate_summary_stats(sid).raises,
                  message |-> FALSE,
                  value |-> <<generate_summary_stats(sid)>>]
    /\ UNCHANGED otherThanAnalyzer

AnalyzePerformanceTrends ==
    /\ query' = [name |-> "analyze_performance_trends", session_id |-> ""]
    /\ answer' = analyze_performance_trends
    /\ UNCHANGED otherThanAnalyzer

CompareApis ==
    /\ query' = [name |-> "compare_apis", session_id |-> ""]
    /\ answer' = compare_apis
    /\ UNCHANGED otherThanAnalyzer

\* what the store answers about a session
Answers(sid) ==
    [sessions |-> get_test_sessions,
     stages |-> get_load_test_results(sid),
     summary |-> generate_summary_stats(sid)]

NoSave ==
    [session_id |-> "", load_results |-> <<>>, raises |-> "None",
     fresh |-> FALSE, repeat |-> FALSE, before |-> <<>>]

(***************************************************************************)
(* save_test_session(session_id, ..., load_results): the mean is taken     *)
(* before the connection is opened; the INSERTs are one transaction.       *)
(***************************************************************************)
SessionIds == {"s1", "s2"}

\* the tables as they are
Stored ==
    [raises |-> "None", session_seq |-> session_seq,
     test_sessions |-> test_sessions, load_test_results |-> load_test_results,
     request_results |-> request_results,
     network_stats_table |-> network_stats_table]

\* the tables as the connection sees them when the `with` block is left:
\* after every INSERT, or after those before the one that raised
Transaction(sid, load_results, net) ==
    LET requests_fail == InsertRaises(load_results)
        done == Attempted(load_results)
        hosts == IF requests_fail THEN <<>> ELSE AttemptedHosts(net)
    IN  [raises |-> IF requests_fail THEN "ProgrammingError"
                    ELSE IF NetworkRaises(net) THEN "AttributeError" ELSE "None",
         session_seq |-> session_seq + 1,
         test_sessions |->
             Append(SelectSeq(test_sessions, LAMBDA h : h.session_id # sid),
                    SessionRow(session_seq + 1, sid, load_results)),
         load_test_results |->
             OldRows(load_test_results, sid) \o NewStageRows(sid, done),
         request_results |->
             OldRows(request_results, sid) \o NewRequestRows(sid, done),
         network_stats_table |-> network_stats_table \o NewNetworkRows(sid, hosts)]

\* a connection that commits whatever the block did
ContextExitAlwaysCommits(before, after) == after

\* `with sqlite3.connect(...) as conn`: commit when the block ends, roll
\* back when it raises
ContextExit(before, after) == IF after.raises = "None" THEN after ELSE before

SaveTestSession(sid, load_results, net) ==
    /\ save_calls < MaxSaves
    /\ save_calls' = save_calls + 1
    /\ lastSave' =
          [session_id |-> sid, load_results |-> load_results,
           raises |-> IF MeanRaises(load_results) THEN "StatisticsError"
                      ELSE Transaction(sid, load_results, net).raises,
           fresh |-> /\ \A h \in Range(test_sessions) : h.session_id # sid
                     /\ \A r \in Range(load_test_results) : r.session_id # sid
                     /\ \A q \in Range(request_results) : q.session_id # sid,
           repeat |-> /\ ~MeanRaises(load_results)
                      /\ Transaction(sid, load_results, net).raises = "None"
                      /\ lastSave.raises = "None"
                      /\ lastSave.session_id = sid
                      /\ lastSave.load_results = load_results,
           before |-> <<Answers(sid)>>]
    /\ IF MeanRaises(load_results)
       THEN UNCHANGED <<test_sessions, session_seq, load_test_results,
                        request_results, network_stats_table>>
       ELSE LET out == ContextExit(Stored, Transaction(sid, load_results, net))
            IN  /\ session_seq' = out.session_seq
                /\ test_sessions' = out.test_sessions
                /\ load_test_results' = out.load_test_results
                /\ request_results' = out.request_results
                /\ network_stats_table' = out.network_stats_table
    /\ UNCHANGED <<stageVars, loadVars, stressVars, unitVars>>

(***************************************************************************)
(* The endpoint profile, APIEndpoint.format_request_body.  A string is the *)
(* sequence of its pieces: plain text, the token {prompt}, or the named    *)
(* placeholder {model}.  A template node is a string, a number, a list or  *)
(* a dict (its values, in key order).                                      *)
(***************************************************************************)
MaxLeafLen == 2
MaxRenders == 3

Pieces == {"text", "{prompt}", "{model}"}

PromptTexts == {"hello", "bye"}

Str(q) == [kind |-> "str", text |-> q, num |-> 0, items |-> <<>>]
Num(n) == [kind |-> "num", text |-> <<>>, num |-> n, items |-> <<>>]
List(items) == [kind |-> "list", text |-> <<>>, num |-> 0, items |-> items]
Dict(items) == [kind |-> "dict", text |-> <<>>, num |-> 0, items |-> items]

\* str.replace(old, new)
Replace(q, old, new) == [i \in DOMAIN q |-> IF q[i] = old THEN new ELSE q[i]]

RECURSIVE replace_placeholders(_, _)
replace_placeholders(obj, prompt_text) ==
    IF obj.kind \in {"dict", "list"}
    THEN [obj EXCEPT !.items =
            [i \in DOMAIN obj.items |-> replace_placeholders(obj.items[i], prompt_text)]]
    ELSE IF obj.kind = "str"
    THEN [obj EXCEPT !.text = Replace(obj.text, "{prompt}", prompt_text)]
    ELSE obj

\* body is a deep copy of request_format; kwargs is not used
format_request_body(prompt, kwargs) ==
    LET body == request_format IN replace_placeholders(body, prompt)

\* a render that fills the template itself instead of a copy of it
TemplateFilledInPlace(template, body) == body

\* self.request_format once format_request_body has returned `body`: the
\* render worked on json.loads(json.dumps(self.request_format)) and built new
\* containers and strings
TemplateAfterRender(template, body) == template

\* the pieces that name a parameter, and the parameter they name
Named == [p \in {"{model}", "{api_key}"} |->
             IF p = "{model}" THEN "model" ELSE "api_key"]

\* template.format(**kwargs): KeyError when a named parameter is missing
str_format(q, kwargs) ==
    IF \E i \in DOMAIN q : q[i] \in DOMAIN Named /\ Named[q[i]] \notin DOMAIN kwargs
    THEN [raises |-> "KeyError", text |-> <<>>]
    ELSE [raises |-> "None",
          text |-> [i \in DOMAIN q |->
                       IF q[i] \in DOMAIN Named THEN kwargs[Named[q[i]]]
                       ELSE q[i]]]

\* format_url(endpoint, **kwargs): base and path formatted and joined; an
\* endpoint the profile does not name has the path ""
format_url(endpoint, kwargs) ==
    LET base == str_format(profile.base_url, kwargs)
        endpoint_path ==
            str_format(IF endpoint \in DOMAIN profile.endpoints
                       THEN profile.endpoints[endpoint] ELSE <<>>, kwargs)
    IN  IF base.raises # "None" THEN base
        ELSE IF endpoint_path.raises # "None" THEN endpoint_path
        ELSE [raises |-> "None", text |-> base.text \o endpoint_path.text]

\* format_headers(**kwargs): a new dict with every value formatted
format_headers(kwargs) ==
    IF \E k \in DOMAIN profile.headers :
           str_format(profile.headers[k], kwargs).raises # "None"
    THEN [raises |-> "KeyError", text |-> <<>>]
    ELSE [raises |-> "None",
          text |-> [k \in DOMAIN profile.headers |->
                       str_format(profile.headers[k], kwargs).text]]

\* the params of a call: api_kwargs as a mapping from names to texts
Params == [n \in DOMAIN api_kwargs |-> api_kwargs[n]]

FormatUrl ==
    /\ Len(render_log) < MaxRenders
    /\ \E endpoint \in {"chat", "embeddings"} :
          /\ rendered_text' = <<format_url(endpoint, Params)>>
          /\ render_log' = Append(render_log, <<"format_url", endpoint>>)
    /\ UNCHANGED <<request_format, api_kwargs, render_prompt, rendered_body,
                   profile>>
    /\ UNCHANGED <<promptVars, response_content, token_info, outcomes,
                   analyze_level, analysis>>
    /\ UNCHANGED <<stageVars, loadVars, stressVars, storeVars, monVars,
                   analyzerVars>>

FormatHeaders ==
    /\ Len(render_log) < MaxRenders
    /\ rendered_text' =
          <<format_headers([n \in DOMAIN api_kwargs \cup {"api_key"} |->
                               IF n = "api_key" THEN "key" ELSE api_kwargs[n]])>>
    /\ render_log' = Append(render_log, <<"format_headers", "">>)
    /\ UNCHANGED <<request_format, api_kwargs, render_prompt, rendered_body,
                   profile>>
    /\ UNCHANGED <<promptVars, response_content, token_info, outcomes,
                   analyze_level, analysis>>
    /\ UNCHANGED <<stageVars, loadVars, stressVars, storeVars, monVars,
                   analyzerVars>>

FormatRequestBody ==
    /\ Len(render_log) < MaxRenders
    /\ \E p \in PromptTexts :
          /\ render_prompt' = p
          /\ rendered_body' = <<format_request_body(p, api_kwargs)>>
          /\ request_format' =
                TemplateAfterRender(request_format,
                                    format_request_body(p, api_kwargs))
          /\ render_log' = Append(render_log, <<"format_request_body", p>>)
    /\ UNCHANGED <<api_kwargs, profile, rendered_text>>
    /\ UNCHANGED <<promptVars, response_content, token_info, outcomes,
                   analyze_level, analysis>>
    /\ UNCHANGED <<stageVars, loadVars, stressVars, storeVars, monVars,
                   analyzerVars>>

(***************************************************************************)
(* The prompt source, PromptManager.  On the event loop get_next_prompt    *)
(* runs without an await and is one step; called from threads, its reads   *)
(* and its write are separate steps, for it takes no lock.                 *)
(***************************************************************************)
MaxCalls == 8
MaxThreads == 2

Threads == 1..MaxThreads

\* the stage runner's variables apart from the cursor
stageRest == <<concurrent_level, total_requests, semaphore, runPc, batch_i,
               results, tpc, texec, attempts, raised, sleeps, tprompt,
               ttimestamp, tstart, tres, received, escaped, render_ok, tstage,
               completed, progress_callback, progress_calls, first_index>>

\* get_next_prompt, as one step
GetNextPrompt ==
    /\ cpc = <<>>
    /\ Len(handed) < MaxCalls
    /\ handed' = Append(handed, prompts[current_index + 1])
    /\ current_index' = NextIndex(current_index, Len(prompts))
    /\ prompt_calls' = prompt_calls + 1
    /\ UNCHANGED <<prompts, cpc, cprompt, cidx>>
    /\ UNCHANGED <<renderVars, response_content, token_info, outcomes,
                   analyze_level, analysis>>
    /\ UNCHANGED <<stageRest, loadVars, stressVars, storeVars, monVars,
                   analyzerVars>>

\* reset_index
ResetIndex ==
    /\ cpc = <<>>
    /\ current_index' = 0
    /\ prompt_calls' = 0
    /\ UNCHANGED <<prompts, handed, cpc, cprompt, cidx>>
    /\ UNCHANGED <<renderVars, response_content, token_info, outcomes,
                   analyze_level, analysis>>
    /\ UNCHANGED <<stageRest, loadVars, stressVars, storeVars, monVars,
                   analyzerVars>>

\* calls begun by the threads and not yet returned
InCall == {c \in DOMAIN cpc : cpc[c] # "idle"}

\* a thread enters get_next_prompt: prompt = self.prompts[self.current_index]
ThreadReads(c) ==
    /\ cpc[c] = "idle"
    /\ Len(handed) + Cardinality(InCall) < MaxCalls
    /\ cprompt' = [cprompt EXCEPT ![c] = prompts[current_index + 1]]
    /\ cpc' = [cpc EXCEPT ![c] = "read"]
    /\ UNCHANGED <<prompts, prompt_calls, handed, cidx, current_index>>
    /\ UNCHANGED <<renderVars, response_content, token_info, outcomes,
                   analyze_level, analysis>>
    /\ UNCHANGED <<stageRest, loadVars, stressVars, storeVars, monVars,
                   analyzerVars>>

\* the thread loads self.current_index for the increment
ThreadLoads(c) ==
    /\ cpc[c] = "read"
    /\ cidx' = [cidx EXCEPT ![c] = current_index]
    /\ cpc' = [cpc EXCEPT ![c] = "loaded"]
    /\ UNCHANGED <<prompts, prompt_calls, handed, cprompt, current_index>>
    /\ UNCHANGED <<renderVars, response_content, token_info, outcomes,
                   analyze_level, analysis>>
    /\ UNCHANGED <<stageRest, loadVars, stressVars, storeVars, monVars,
                   analyzerVars>>

\* the thread stores the new cursor and returns its prompt
ThreadStores(c) ==
    /\ cpc[c] = "loaded"
    /\ current_index' = NextIndex(cidx[c], Len(prompts))
    /\ handed' = Append(handed, cprompt[c])
    /\ prompt_calls' = prompt_calls + 1
    /\ cpc' = [cpc EXCEPT ![c] = "idle"]
    /\ UNCHANGED <<prompts, cprompt, cidx>>
    /\ UNCHANGED <<renderVars, response_content, token_info, outcomes,
                   analyze_level, analysis>>
    /\ UNCHANGED <<stageRest, loadVars, stressVars, storeVars, monVars,
                   analyzerVars>>

PromptNext == GetNextPrompt \/ ResetIndex

ThreadsNext ==
    \E c \in Threads : ThreadReads(c) \/ ThreadLoads(c) \/ ThreadStores(c)

(***************************************************************************)
(* _extract_token_info called on its own.                                  *)
(***************************************************************************)
ExtractTokenInfo ==
    /\ token_info' = <<_extract_token_info(response_content)>>
    /\ UNCHANGED <<renderVars, promptVars, response_content, outcomes,
                   analyze_level, analysis>>
    /\ UNCHANGED <<stageVars, loadVars, stressVars, storeVars, monVars,
                   analyzerVars>>

(***************************************************************************)
(* analyze_results called on its own.                                      *)
(***************************************************************************)
AnalyzeResults ==
    /\ analysis' = <<analyze_results(outcomes, analyze_level)>>
    /\ UNCHANGED <<renderVars, promptVars, response_content, token_info,
                   outcomes, analyze_level>>
    /\ UNCHANGED <<stageVars, loadVars, stressVars, storeVars, monVars,
                   analyzerVars>>

(***************************************************************************)
(* The host prober, NetworkMonitor, and the session code of main.py that   *)
(* starts and stops it.  A sample's timestamp is the number of the round   *)
(* that took it; latencies are in milliseconds.                            *)
(***************************************************************************)
\* NetworkMonitor.timeout, in seconds
ProbeTimeout == 10

\* the length past which a target's list is cut, and the length it is cut to
RingCap == 1000
RingKeep == 500

\* the latency of a probe that was answered
ProbeLatency == 20

\* a target string: whether it starts with "http://" or "https://", whether
\* it starts with "http", whether it holds ":", its parts around the last
\* ":", whether the last part is a number, and urlparse(target).hostname
Target(text, url, http, colon, head, tail, numeric, hostname) ==
    [text |-> text, url |-> url, http |-> http, colon |-> colon, head |-> head,
     tail |-> tail, numeric |-> numeric, hostname |-> hostname]

TargetHost ==
    Target("example.com", FALSE, FALSE, FALSE, "example.com", 0, FALSE, "None")
TargetHostPort ==
    Target("example.com:8080", FALSE, FALSE, TRUE, "example.com", 8080, TRUE, "None")
TargetBadPort ==
    Target("example.com:abc", FALSE, FALSE, TRUE, "example.com", 0, FALSE, "None")
TargetUrl ==
    Target("http://example.com", TRUE, TRUE, TRUE, "http", 0, FALSE, "example.com")
TargetHttpPrefixed ==
    Target("httpbin.org:8080", FALSE, TRUE, TRUE, "httpbin.org", 8080, TRUE, "None")

PingResult(ts, host, ip, rt, ok, err) ==
    [timestamp |-> ts, host |-> host, ip_address |-> ip, response_time |-> rt,
     success |-> ok, error_message |-> err, raises |-> "None"]

\* a ping_host task that ended by raising
PingRaised(exc) ==
    [timestamp |-> 0, host |-> "", ip_address |-> <<>>, response_time |-> 0,
     success |-> FALSE, error_message |-> "", raises |-> exc]

PingPending == PingRaised("pending")

\* socket.gethostbyname(hostname), or the hostname itself on gaierror
_resolve_hostname(hostname) == <<"addr", hostname>>

\* how a probe ends: answered (with an HTTP status, for HEAD), timed out, or
\* failed with another exception
Endings == {<<"answer", 200>>, <<"answer", 404>>, <<"timeout", 0>>, <<"error", 0>>}

_tcp_ping(ts, host, port, e) ==
    LET ip_address == _resolve_hostname(host) IN
    CASE e[1] = "answer" -> PingResult(ts, host, ip_address, ProbeLatency, TRUE, "None")
      [] e[1] = "timeout" ->
            PingResult(ts, host, ip_address, ProbeTimeout * 1000, FALSE, "timeout")
      [] OTHER -> PingResult(ts, host, ip_address, 0, FALSE, "Exception")

\* a 2xx or 3xx status counts as reachable
HttpSuccessAnyStatus(status) == status >= 200

\* success = 200 <= response.status < 400
HttpSuccess(status) == 200 <= status /\ status < 400

\* session.head(url) raises for a url without a host
_http_ping(ts, target, e) ==
    LET host == target.hostname
        ip_address == IF host # "None" THEN _resolve_hostname(host) ELSE <<"unknown">>
    IN  CASE host = "None" -> PingResult(ts, host, ip_address, 0, FALSE, "Exception")
          [] e[1] = "answer" ->
                PingResult(ts, host, ip_address, ProbeLatency, HttpSuccess(e[2]),
                           IF HttpSuccess(e[2]) THEN "None" ELSE "HTTP status")
          [] e[1] = "timeout" ->
                PingResult(ts, host, ip_address, ProbeTimeout * 1000, FALSE, "timeout")
          [] OTHER -> PingResult(ts, host, ip_address, 0, FALSE, "Exception")

\* int(port) accepts any text
PortParsedLeniently(target) == TRUE

\* int(port) raises ValueError unless the text after the last ":" is a number
PortParsed(target) == target.numeric

ping_host(ts, target, m, e) ==
    IF m = "http" \/ target.url
    THEN _http_ping(ts, target, e)
    ELSE IF target.colon /\ ~target.http
         THEN IF PortParsed(target)
              THEN _tcp_ping(ts, target.head, target.tail, e)
              ELSE PingRaised("ValueError")
         ELSE _tcp_ping(ts, target.text, 80, e)

otherThanMon == <<stageVars, loadVars, stressVars, storeVars, renderVars,
                  promptVars, response_content, token_info, outcomes,
                  analyze_level, analysis, analyzerVars>>

\* the task start_monitoring first runs
MonitorStart ==
    /\ monPc = "created"
    /\ monitoring' = TRUE
    /\ ping_results' = [t \in {targets[i].text : i \in 1..Len(targets)} |-> <<>>]
    /\ monPc' = "top"
    /\ UNCHANGED <<targets, method, ping_tasks, rounds, round_limit, network,
                   sessPc, stop_round, stop_pc, network_stats>>
    /\ UNCHANGED otherThanMon

\* `while self.monitoring:` and, inside it, the round's tasks handed to gather
LoopTop ==
    /\ monPc = "top"
    /\ IF monitoring
       THEN /\ rounds < round_limit
            /\ rounds' = rounds + 1
            /\ ping_tasks' = [i \in 1..Len(targets) |-> PingPending]
            /\ monPc' = "gather"
       ELSE /\ monPc' = "returned"
            /\ UNCHANGED <<rounds, ping_tasks>>
    /\ UNCHANGED <<monitoring, ping_results, targets, method, round_limit,
                   network, sessPc, stop_round, stop_pc, network_stats>>
    /\ UNCHANGED otherThanMon

\* one ping_host task of the round ends
ProbeReturns(i) ==
    /\ monPc = "gather"
    /\ ping_tasks[i] = PingPending
    /\ \E e \in network :
          ping_tasks' = [ping_tasks EXCEPT ![i] = ping_host(rounds, targets[i], method, e)]
    /\ UNCHANGED <<monitoring, ping_results, targets, method, monPc, rounds,
                   round_limit, network, sessPc, stop_round, stop_pc, network_stats>>
    /\ UNCHANGED otherThanMon

\* a list that keeps its oldest samples when it is cut
TrimmedToOldest(q) == IF Len(q) > RingCap THEN SubSeq(q, 1, RingKeep) ELSE q

\* if len(...) > 1000: self.ping_results[target] = self.ping_results[target][-500:]
Trimmed(q) ==
    IF Len(q) > RingCap THEN SubSeq(q, Len(q) - RingKeep + 1, Len(q)) ELSE q

\* for target, result in zip(targets, results): ...
RECURSIVE SaveFrom(_, _)
SaveFrom(pr, i) ==
    IF i > Len(targets) THEN pr
    ELSE IF ping_tasks[i].raises # "None" THEN SaveFrom(pr, i + 1)
    ELSE SaveFrom([pr EXCEPT ![targets[i].text] = Trimmed(Append(@, ping_tasks[i]))],
                  i + 1)

\* gather returned: the results are saved, then the interval sleep begins
SaveResults ==
    /\ monPc = "gather"
    /\ \A i \in 1..Len(targets) : ping_tasks[i] # PingPending
    /\ ping_results' = SaveFrom(ping_results, 1)
    /\ monPc' = "sleep"
    /\ UNCHANGED <<monitoring, targets, method, ping_tasks, rounds, round_limit,
                   network, sessPc, stop_round, stop_pc, network_stats>>
    /\ UNCHANGED otherThanMon

\* asyncio.sleep(self.ping_interval) is over
SleepEnds ==
    /\ monPc = "sleep"
    /\ monPc' = "top"
    /\ UNCHANGED <<monitoring, ping_results, targets, method, ping_tasks, rounds,
                   round_limit, network, sessPc, stop_round, stop_pc, network_stats>>
    /\ UNCHANGED otherThanMon

\* sum of |x[i] - x[i-1]| over a sequence
RECURSIVE AbsDiffSum(_)
AbsDiffSum(q) ==
    IF Len(q) < 2 THEN 0
    ELSE (IF q[2] >= q[1] THEN q[2] - q[1] ELSE q[1] - q[2]) + AbsDiffSum(Tail(q))

\* get_network_stats on a target with a non-empty list; std_response_time,
\* a square root, is left out
get_network_stats(target) ==
    LET results_ == ping_results[target]
        total_pings == Len(results_)
        successful_results == SelectSeq(results_, LAMBDA r : r.success)
        successful_pings == Len(successful_results)
        failed_pings == total_pings - successful_pings
        response_times == Map(successful_results, LAMBDA r : r.response_time)
        some == successful_pings > 0
    IN  [host |-> target,
         total_pings |-> total_pings,
         successful_pings |-> successful_pings,
         failed_pings |-> failed_pings,
         success_rate |-> Quotient(successful_pings, total_pings),
         avg_response_time |->
             IF some THEN <<SumSeq(response_times), successful_pings>> ELSE <<0, 1>>,
         min_response_time |-> IF some THEN MinSeq(response_times) ELSE 0,
         max_response_time |-> IF some THEN MaxSeq(response_times) ELSE 0,
         packet_loss |-> Quotient(failed_pings, total_pings),
         jitter |->
             IF successful_pings > 1
             THEN <<AbsDiffSum(response_times), successful_pings - 1>> ELSE <<0, 1>>,
         ping_results |-> results_]

\* the stats of every target whose list is not empty
get_all_stats ==
    [t \in {u \in DOMAIN ping_results : ping_results[u] # <<>>} |->
        get_network_stats(t)]

\* main.py: monitor.stop_monitoring(), then `await asyncio.sleep(1)`
StopMonitoring ==
    /\ sessPc = "testing"
    /\ monitoring' = FALSE
    /\ sessPc' = "grace"
    /\ stop_round' = IF monPc = "gather" THEN rounds ELSE 0
    /\ stop_pc' = monPc
    /\ UNCHANGED <<ping_results, targets, method, monPc, ping_tasks, rounds,
                   round_limit, network, network_stats>>
    /\ UNCHANGED otherThanMon

\* main.py: the second is over; monitor_task.cancel() and
\* monitor.get_all_stats() follow with no await between them
SessionReadsStats ==
    /\ sessPc = "grace"
    /\ monPc' = IF monPc = "returned" THEN "returned" ELSE "cancelled"
    /\ network_stats' = <<get_all_stats>>
    /\ sessPc' = "done"
    /\ UNCHANGED <<monitoring, ping_results, targets, method, ping_tasks, rounds,
                   round_limit, network, stop_round, stop_pc>>
    /\ UNCHANGED otherThanMon

ProberNext ==
    \/ MonitorStart
    \/ LoopTop
    \/ \E i \in 1..Len(targets) : ProbeReturns(i)
    \/ SaveResults
    \/ SleepEnds

MonitorNext ==
    \/ ProberNext
    \/ StopMonitoring
    \/ SessionReadsStats

(***************************************************************************)
(* The parts of the program that a scenario does not run stay as           *)
(* constructed.                                                            *)
(***************************************************************************)
StageIdle ==
    /\ concurrent_level = 1
    /\ total_requests = 0
    /\ semaphore = 1
    /\ runPc = "idle"
    /\ batch_i = 0
    /\ results = <<>>
    /\ tpc = [t \in Tasks |-> "none"]
    /\ texec = [t \in Tasks |-> "real"]
    /\ attempts = [t \in Tasks |-> 0]
    /\ raised = [t \in Tasks |-> 0]
    /\ sleeps = [t \in Tasks |-> 0]
    /\ tprompt = [t \in Tasks |-> 0]
    /\ ttimestamp = [t \in Tasks |-> 0]
    /\ tstart = [t \in Tasks |-> 0]
    /\ tres = [t \in Tasks |-> NoResult]
    /\ received = [t \in Tasks |-> NoResponse]
    /\ escaped = [t \in Tasks |-> "None"]
    /\ tstage = [t \in Tasks |-> 0]
    /\ completed = <<>>
    /\ progress_callback = FALSE
    /\ progress_calls = <<>>
    /\ first_index = 0
    /\ current_index = 0
    /\ render_ok = TRUE

LoadIdle ==
    /\ concurrent_levels = <<>>
    /\ ramp_up_time = 0
    /\ cool_down_time = 0
    /\ loadPc = "none"
    /\ level_i = 1
    /\ requests_per_level = 0
    /\ loadResults = <<>>
    /\ idles = <<>>

StressIdle ==
    /\ now = 0
    /\ end_time = 0
    /\ duration_seconds = 0
    /\ max_concurrent = 1
    /\ stressPc = "none"
    /\ wpc = [w \in 1..MaxWorkers |-> "none"]
    /\ stressSem = 1
    /\ stressResults = <<>>
    /\ started = {}
    /\ stressOut = <<>>

StoreIdle ==
    /\ test_sessions = <<>>
    /\ session_seq = 0
    /\ load_test_results = <<>>
    /\ request_results = <<>>
    /\ network_stats_table = <<>>
    /\ lastSave = NoSave
    /\ save_calls = 0

NoProfile ==
    [base_url |-> <<>>, endpoints |-> [e \in {} |-> <<>>],
     headers |-> [h \in {} |-> <<>>]]

RenderIdle ==
    /\ request_format = Dict(<<>>)
    /\ api_kwargs = <<>>
    /\ render_prompt = ""
    /\ rendered_body = <<>>
    /\ profile = NoProfile
    /\ rendered_text = <<>>
    /\ render_log = <<>>

PromptIdle ==
    /\ prompts = [i \in 1..NumPrompts |-> i]
    /\ prompt_calls = 0
    /\ handed = <<>>
    /\ cpc = <<>>
    /\ cprompt = <<>>
    /\ cidx = <<>>

TokensIdle ==
    /\ response_content = BodyEmptyObject
    /\ token_info = <<>>

AnalyzeIdle ==
    /\ outcomes = <<>>
    /\ analyze_level = 1
    /\ analysis = <<>>

MonitorIdle ==
    /\ monitoring = FALSE
    /\ ping_results = <<>>
    /\ targets = <<>>
    /\ method = "tcp"
    /\ monPc = "none"
    /\ ping_tasks = <<>>
    /\ rounds = 0
    /\ round_limit = 0
    /\ network = {}
    /\ sessPc = "none"
    /\ stop_round = 0
    /\ stop_pc = ""
    /\ network_stats = <<>>

AnalyzerIdle ==
    /\ query = [name |-> "None", session_id |-> ""]
    /\ answer = [raises |-> "None", message |-> FALSE, value |-> <<>>]

UnitIdle ==
    RenderIdle /\ PromptIdle /\ TokensIdle /\ AnalyzeIdle /\ MonitorIdle
        /\ AnalyzerIdle

(***************************************************************************)
(* SpecStage: one call run_concurrent_requests(C, N) on a fresh engine.    *)
(***************************************************************************)
StageInit ==
    /\ concurrent_level \in 1..MaxConcurrent
    /\ total_requests \in 0..MaxRequests
    /\ semaphore = concurrent_level
    /\ runPc = "dispatch"
    /\ batch_i = 0
    /\ results = <<>>
    /\ tpc = [t \in Tasks |-> IF t <= total_requests THEN "created" ELSE "none"]
    /\ texec \in Executors(total_requests)
    /\ attempts = [t \in Tasks |-> 0]
    /\ raised = [t \in Tasks |-> 0]
    /\ sleeps = [t \in Tasks |-> 0]
    /\ tprompt = [t \in Tasks |-> 0]
    /\ ttimestamp = [t \in Tasks |-> 0]
    /\ tstart = [t \in Tasks |-> 0]
    /\ tres = [t \in Tasks |-> NoResult]
    /\ received = [t \in Tasks |-> NoResponse]
    /\ escaped = [t \in Tasks |-> "None"]
    /\ tstage = [t \in Tasks |-> 0]
    /\ completed = <<>>
    /\ progress_callback \in BOOLEAN
    /\ progress_calls = <<>>
    /\ current_index \in 0..(NumPrompts - 1)
    /\ first_index = current_index
    /\ render_ok \in BOOLEAN
    /\ LoadIdle
    /\ StressIdle
    /\ StoreIdle
    /\ UnitIdle

SpecStage == StageInit /\ [][StageNext]_vars

(***************************************************************************)
(* Claims about one stage run (SpecStage).                                 *)
(***************************************************************************)
Finished(t) == tpc[t] = "done"

\* C1: a stage run of N requests returns a list of exactly N outcomes,
\* whatever mix of its executions succeed, return non-2xx, exhaust their
\* retries or raise.
C1_StageCardinality == runPc = "returned" => Len(results) = total_requests

\* a returned stage of at least two requests with a success and a raise
C1_Witness ==
    /\ runPc = "returned"
    /\ total_requests >= 2
    /\ \E i, j \in 1..Len(results) :
          /\ results[i].success
          /\ results[j].error_message = "InternalError"

\* C2: in every state of a stage run the number of executions that hold a
\* permit of the stage semaphore is at most the concurrency level C.
C2_ConcurrencyBound == Cardinality(InFlight) <= concurrent_level

\* C executions are in flight while a further task waits for a permit
C2_Witness ==
    /\ Cardinality(InFlight) = concurrent_level
    /\ \E t \in Tasks : tpc[t] = "scheduled"

\* C3: one send_single_request issues at most 3 POST attempts, an attempt
\* after the first is issued only once all earlier ones have raised, and a
\* backoff wait lies only between two attempts (never after the last).
C3_RetryBound ==
    \A t \in Tasks :
        /\ attempts[t] <= 3
        /\ tpc[t] = "post" => raised[t] = attempts[t] - 1
        /\ tpc[t] = "backoff" =>
              /\ attempts[t] < 3
              /\ raised[t] = attempts[t]
              /\ sleeps[t] = attempts[t]
        /\ tpc[t] # "backoff" /\ attempts[t] > 0 => sleeps[t] = attempts[t] - 1

\* a call whose three attempts all raised, with two backoff waits
C3_Witness ==
    \E t \in Tasks :
        Finished(t) /\ attempts[t] = 3 /\ raised[t] = 3 /\ sleeps[t] = 2

\* C4: a response with a status outside 200..299 ends the call (no further
\* attempt) and the outcome has success = false, the received status and
\* the received body's length.
C4_NonSuccessPreserved ==
    \A t \in Tasks :
        (received[t] # NoResponse /\ ~(200 <= received[t].status /\ received[t].status < 300)) =>
            /\ Finished(t)
            /\ tres[t].success = FALSE
            /\ tres[t].status_code = received[t].status
            /\ tres[t].content_length = received[t].text_len

\* C5: send_single_request ends every call with one outcome and raises
\* nothing; when the three attempts all raised, or another exception
\* escaped the try block, the outcome is the failed one: status 0, no
\* success, no tokens, length 0, the exception as error_message.
C5_OneOutcomeNoRaise ==
    \A t \in Tasks :
        (Finished(t) /\ texec[t] = "real") =>
            /\ tres[t].raises = "None"
            /\ raised[t] >= 3 => escaped[t] = "RetryError"
            /\ escaped[t] # "None" =>
                  tres[t] = RequestResult(ttimestamp[t], tprompt[t], now - ttimestamp[t],
                                          0, FALSE, "", escaped[t], Tokens(0, 0, 0), 0)
            /\ escaped[t] = "None" => tres[t].status_code = received[t].status

\* a call that ended after three raising attempts
C5_Witness ==
    \E t \in Tasks :
        /\ Finished(t)
        /\ texec[t] = "real"
        /\ raised[t] = 3
        /\ tres[t].status_code = 0
        /\ tres[t].error_message = "RetryError"

\* C11: when the params lack a placeholder of the URL, path or header
\* templates, the run fails as a whole: no execution ends with an Attempt
\* Outcome and the stage's result list stays empty.
C11_RenderErrorFatal ==
    ~render_ok =>
        /\ results = <<>>
        /\ \A t \in Tasks : ~(Finished(t) /\ tres[t].raises = "None")

\* C15: every outcome in the stage's result list, from the executor or
\* synthesized by the runner, has success = true exactly when its status is
\* in 200..299; status 0 goes with success = false.
C15_SuccessIffStatus2xx ==
    \A i \in 1..Len(results) :
        /\ results[i].success <=>
              (results[i].status_code >= 200 /\ results[i].status_code <= 299)
        /\ results[i].status_code = 0 => ~results[i].success

\* a returned stage whose list holds a 200, a 500 and a synthesized outcome
C15_Witness ==
    /\ runPc = "returned"
    /\ \E i, j, k \in 1..Len(results) :
          /\ results[i].status_code = 200 /\ results[i].success
          /\ results[j].status_code = 500 /\ ~results[j].success
          /\ results[k].error_message = "InternalError" /\ ~results[k].success

\* C16: the list a stage returns holds the outcomes in the order in which
\* the executions completed.
C16_CompletionOrder ==
    runPc = "returned" =>
        results = [i \in 1..Len(completed) |-> Collected(tres[completed[i]])[1]]

\* C18: whatever the shape of a received body, the outcome keeps the
\* received status, success says whether it is in 200..299, and a body that
\* cannot be parsed for tokens gives the counts (0, 0, 0).
C18_ParseFailureSilent ==
    \A t \in Tasks :
        (Finished(t) /\ received[t] # NoResponse) =>
            /\ tres[t].status_code = received[t].status
            /\ tres[t].success <=>
                  (received[t].status >= 200 /\ received[t].status <= 299)
            /\ received[t].text \in {BodyNotJson.text, BodyNull.text} =>
                  /\ tres[t].input_tokens = 0
                  /\ tres[t].output_tokens = 0
                  /\ tres[t].total_tokens = 0

(***************************************************************************)
(* SpecLoad: one call run_load_test(L, N, R, D) on a fresh engine.         *)
(***************************************************************************)
RECURSIVE Seqs(_, _)
Seqs(S, n) ==
    IF n = 0 THEN {<<>>}
    ELSE Seqs(S, n - 1) \cup {Append(q, x) : q \in {r \in Seqs(S, n - 1) : Len(r) = n - 1}, x \in S}

LoadInit ==
    /\ StageIdle
    /\ concurrent_levels \in Seqs(1..MaxConcurrent, MaxLevels)
    /\ requests_per_level \in 0..MaxLoadRequests
    /\ ramp_up_time \in {0, 5}
    /\ cool_down_time \in {0, 10}
    /\ loadPc = "loop"
    /\ level_i = 1
    /\ loadResults = <<>>
    /\ idles = <<>>
    /\ StressIdle
    /\ StoreIdle
    /\ UnitIdle

SpecLoad == LoadInit /\ [][LoadNext]_vars

\* C10: run_load_test over k levels returns k Stage Results whose levels are
\* the input levels in input order, and a request is only ever in flight or
\* waiting while it belongs to the stage that is running: every earlier
\* stage has been analyzed with all of its requests, and no later stage has
\* issued anything.
C10_StagesSequential ==
    /\ loadPc = "done" => Len(loadResults) = Len(concurrent_levels)
    /\ \A i \in 1..Len(loadResults) :
          /\ loadResults[i].concurrent_level = concurrent_levels[i]
          /\ loadResults[i].total_requests = requests_per_level
    /\ \A t \in Tasks :
          tpc[t] \in {"scheduled", "running", "post", "backoff"} =>
              /\ loadPc = "stage"
              /\ tstage[t] = level_i
              /\ Len(loadResults) = level_i - 1

\* the second stage of a run over two different levels, descending, has a
\* request in flight
C10_Witness ==
    /\ Len(concurrent_levels) = 2
    /\ concurrent_levels[1] > concurrent_levels[2]
    /\ level_i = 2
    /\ \E t \in Tasks : tpc[t] = "post"

(***************************************************************************)
(* SpecStress: one call run_stress_test(C, T), from start_time = 0.        *)
(***************************************************************************)
StressInit ==
    /\ StageIdle
    /\ LoadIdle
    /\ StoreIdle
    /\ now = 0
    /\ duration_seconds \in 0..(MaxClock - 1)
    /\ end_time = duration_seconds
    /\ max_concurrent \in 1..MaxWorkers
    /\ stressPc = "monitor"
    /\ wpc = [w \in Workers |-> "none"]
    /\ stressSem = max_concurrent
    /\ stressResults = <<>>
    /\ started = {}
    /\ stressOut = <<>>
    /\ UnitIdle

SpecStress == StressInit /\ [][StressNext]_vars

\* C8: with C >= 1 and T > 0 the workers run while the monitor waits for the
\* deadline, so a finished run (its executions answering at once) has
\* collected at least one outcome.
C8_WorkersRunInWindow ==
    (stressPc = "done" /\ duration_seconds > 0) => Len(stressResults) >= 1

\* C9: a worker starts an execution only at a clock reading before
\* start + T, at both of its deadline checks; a worker that read a clock at
\* or past the deadline has left its loop for good.
C9_NoStartPastDeadline ==
    /\ \A t \in started : t < end_time
    /\ \A w \in Workers : wpc[w] = "finished" => now >= end_time

\* a worker of a run with T > 0 read the clock at the deadline and left
C9_Witness ==
    /\ duration_seconds > 0
    /\ now = end_time
    /\ \E w \in Workers : wpc[w] = "finished"

(***************************************************************************)
(* SpecStore: save_test_session calls on a fresh database.  The stages     *)
(* saved are Stage Results as analyze_results forms them.                  *)
(***************************************************************************)
\* a successful outcome, a retry-exhausted one and a non-2xx one
ReqOk(p, lat) ==
    RequestResult(1, p, lat, 200, TRUE, BodyOpenAI.text, "None",
                  Tokens(1, 2, 3), BodyOpenAI.text_len)
ReqRetryError(p) ==
    RequestResult(2, p, 7, 0, FALSE, "", "RetryError", Tokens(0, 0, 0), 0)
ReqStatus500(p) ==
    RequestResult(3, p, 50, 500, FALSE, BodyNotJson.text, "None",
                  Tokens(0, 0, 0), BodyNotJson.text_len)

StoreStage(C, rs, avg, tokens) ==
    [concurrent_level |-> C, total_requests |-> Len(rs),
     successful_requests |-> CountSuccess(rs),
     failed_requests |-> Len(rs) - CountSuccess(rs),
     avg_response_time |-> avg, requests_per_second |-> CountSuccess(rs),
     total_tokens |-> tokens, results |-> rs]

StoreStages ==
    {StoreStage(1, <<ReqOk(1, 100)>>, 100, 3),
     StoreStage(2, <<ReqOk(2, 200), ReqRetryError(1)>>, 200, 3),
     StoreStage(2, <<ReqStatus500(2)>>, 0, 0)}

StoreInit ==
    /\ StageIdle
    /\ LoadIdle
    /\ StressIdle
    /\ StoreIdle
    /\ UnitIdle

StoreNext ==
    \E sid \in SessionIds, load_results \in Seqs(StoreStages, MaxStages) :
        SaveTestSession(sid, load_results, <<>>)

SpecStore == StoreInit /\ [][StoreNext]_vars

\* the stage as load_stages is to give it back: response_content is empty
Blanked(st) ==
    [st EXCEPT !.results = Map(st.results, LAMBDA r : [r EXCEPT !.response_content = ""])]

\* C6: a second save_test_session with the same session_id and the same
\* stages leaves every answer of the store as it was after the first: one
\* header row, and as many stage and request rows as the call wrote.
C6_IdempotentSave ==
    lastSave.repeat =>
        LET sid == lastSave.session_id
            stages == lastSave.load_results
        IN  /\ Cardinality({h \in Range(test_sessions) : h.session_id = sid}) = 1
            /\ Len(SelectSeq(load_test_results, LAMBDA r : r.session_id = sid))
                  = Len(stages)
            /\ Len(SelectSeq(request_results, LAMBDA q : q.session_id = sid))
                  = SumSeq(Map(stages, LAMBDA st : Len(st.results)))
            /\ [generate_summary_stats(sid) EXCEPT !.session_info = {}]
                  = [lastSave.before[1].summary EXCEPT !.session_info = {}]
            /\ get_load_test_results(sid) = lastSave.before[1].stages

\* C7: after a save under a fresh session_id, get_load_test_results gives
\* back the saved stages: as many, equal in every aggregate, each with its
\* own outcomes, equal but for the empty response_content.
C7_RoundTrip ==
    (lastSave.fresh /\ lastSave.raises = "None") =>
        LET got == get_load_test_results(lastSave.session_id)
            stages == lastSave.load_results
        IN  /\ got.raises = "None"
            /\ Len(got.value) = Len(stages)
            /\ \A i \in 1..Len(stages) :
                  /\ i <= Len(got.value)
                  /\ got.value[i] = Blanked(stages[i])

(***************************************************************************)
(* SpecRender: format_request_body calls on one profile.                   *)
(***************************************************************************)
Leaves == {Str(q) : q \in Seqs(Pieces, MaxLeafLen)} \cup {Num(7)}

\* body templates: a flat dict, a list under a dict, a list two dicts deep
Templates ==
    {Dict(<<l>>) : l \in Leaves}
        \cup {Dict(<<Num(7), List(<<l1, l2>>)>>) : l1 \in Leaves, l2 \in Leaves}
        \cup {Dict(<<Dict(<<List(<<l>>)>>)>>) : l \in Leaves}

\* profiles whose URL and headers name no parameter, or the model and key
Profiles ==
    {[base_url |-> b, endpoints |-> [e \in {"chat"} |-> <<"text", "{model}">>],
      headers |-> [h \in {"Authorization"} |-> <<"text", "{api_key}">>]] :
        b \in {<<"text">>, <<"{model}", "text">>}}

RenderInit ==
    /\ StageIdle
    /\ LoadIdle
    /\ StressIdle
    /\ StoreIdle
    /\ PromptIdle
    /\ TokensIdle
    /\ AnalyzeIdle
    /\ request_format \in Templates
    /\ api_kwargs \in {<<>>, [n \in {"model"} |-> "gpt"]}
    /\ render_prompt = ""
    /\ rendered_body = <<>>
    /\ profile \in Profiles
    /\ rendered_text = <<>>
    /\ render_log = <<>>
    /\ MonitorIdle
    /\ AnalyzerIdle

RenderNext ==
    \/ FormatUrl
    \/ FormatHeaders
    \/ FormatRequestBody

SpecRender == RenderInit /\ [][RenderNext]_vars

\* the body as a render is to give it: in every string leaf the named
\* placeholders of the params and {prompt} are replaced
RECURSIVE Substituted(_, _, _)
Substituted(obj, prompt_text, kwargs) ==
    IF obj.kind \in {"dict", "list"}
    THEN [obj EXCEPT !.items =
            [i \in DOMAIN obj.items |-> Substituted(obj.items[i], prompt_text, kwargs)]]
    ELSE IF obj.kind = "str"
    THEN [obj EXCEPT !.text =
            [i \in DOMAIN obj.text |->
                IF obj.text[i] = "{prompt}" THEN prompt_text
                ELSE IF obj.text[i] = "{model}" /\ "model" \in DOMAIN kwargs
                THEN kwargs["model"]
                ELSE obj.text[i]]]
    ELSE obj

\* C12: the rendered body has, in every string leaf at any depth, the named
\* placeholders replaced by their params and {prompt} by the prompt text;
\* the other leaves are as in the template.
C12_BodyFullyRendered ==
    rendered_body # <<>> =>
        rendered_body[1] = Substituted(request_format, render_prompt, api_kwargs)

(***************************************************************************)
(* SpecPrompt: get_next_prompt and reset_index calls on the event loop, on *)
(* a fresh PromptManager.  SpecThreads: get_next_prompt called from        *)
(* threads.                                                                *)
(***************************************************************************)
PromptInit ==
    /\ StageIdle
    /\ LoadIdle
    /\ StressIdle
    /\ StoreIdle
    /\ RenderIdle
    /\ TokensIdle
    /\ AnalyzeIdle
    /\ prompts \in {[i \in 1..L |-> i] : L \in 1..NumPrompts}
    /\ prompt_calls = 0
    /\ handed = <<>>
    /\ cpc = <<>>
    /\ cprompt = <<>>
    /\ cidx = <<>>
    /\ MonitorIdle
    /\ AnalyzerIdle

SpecPrompt == PromptInit /\ [][PromptNext]_vars

ThreadsInit ==
    /\ StageIdle
    /\ LoadIdle
    /\ StressIdle
    /\ StoreIdle
    /\ RenderIdle
    /\ TokensIdle
    /\ AnalyzeIdle
    /\ prompts \in {[i \in 1..L |-> i] : L \in 1..NumPrompts}
    /\ prompt_calls = 0
    /\ handed = <<>>
    /\ cpc = [c \in Threads |-> "idle"]
    /\ cprompt = [c \in Threads |-> 0]
    /\ cidx = [c \in Threads |-> 0]
    /\ MonitorIdle
    /\ AnalyzerIdle

SpecThreads == ThreadsInit /\ [][ThreadsNext]_vars

\* C13: with the cursor starting at 0, the k-th call returns
\* prompts[(k-1) mod L], the cursor after K calls is K mod L and stays in
\* 0..L-1, and reset_index puts the cursor back to 0 (the count starts anew).
C13_PromptRotation ==
    LET L == Len(prompts) IN
    /\ current_index \in 0..(L - 1)
    /\ current_index = prompt_calls % L
    /\ prompt_calls > 0 =>
          handed[Len(handed)] = prompts[((prompt_calls - 1) % L) + 1]
    /\ prompt_calls = 0 => current_index = 0

\* the cursor has wrapped: more calls than prompts since the last reset,
\* which itself came after a call
C13_Witness ==
    /\ Len(prompts) = 2
    /\ prompt_calls = 3
    /\ Len(handed) > prompt_calls
    /\ current_index = 1

\* C14: with callers on several threads every call still moves the cursor
\* by exactly one: once every call has returned the cursor is the number of
\* calls mod L, and each prompt handed out is the successor of the one
\* handed out before it.
C14_AtomicAdvance ==
    LET L == Len(prompts) IN
    /\ InCall = {} => current_index = prompt_calls % L
    /\ \A i \in 1..(Len(handed) - 1) : handed[i + 1] = (handed[i] % L) + 1

(***************************************************************************)
(* SpecTokens: _extract_token_info on one response body.                   *)
(***************************************************************************)
\* a usage field is absent or holds one of these counts
TokenCounts == {0, 3}

UsageDicts ==
    {[kind |-> "dict", prompt_tokens |-> a, completion_tokens |-> b,
      total_tokens |-> c, input_tokens |-> d, output_tokens |-> e] :
        a \in TokenCounts \cup {Absent}, b \in TokenCounts \cup {Absent},
        c \in TokenCounts \cup {Absent}, d \in TokenCounts \cup {Absent},
        e \in TokenCounts \cup {Absent}}

\* JSON objects with a usage object, with a usage of another type and
\* without usage, JSON that is no object, and text that is no JSON
TokenBodies ==
    {[text |-> "{usage:{}}", text_len |-> 12, kind |-> "object", usage |-> u] :
        u \in UsageDicts}
      \cup {[text |-> "{usage:x}", text_len |-> 14, kind |-> "object",
             usage |-> [NoUsage EXCEPT !.kind = k]] : k \in {"null", "number", "list", "string"}}
      \cup {[text |-> "x", text_len |-> 4, kind |-> k, usage |-> NoUsage] :
                k \in {"null", "number", "list", "string"}}
      \cup {BodyNotJson, BodyEmptyObject, BodyOpenAI}

TokensInit ==
    /\ StageIdle
    /\ LoadIdle
    /\ StressIdle
    /\ StoreIdle
    /\ RenderIdle
    /\ PromptIdle
    /\ AnalyzeIdle
    /\ response_content \in TokenBodies
    /\ token_info = <<>>
    /\ MonitorIdle
    /\ AnalyzerIdle

SpecTokens == TokensInit /\ [][ExtractTokenInfo]_vars

OrZero(v) == IF v = Absent THEN 0 ELSE v

\* C17: for a JSON object with a usage object the token triple is
\* (prompt_tokens, completion_tokens, total_tokens) when prompt_tokens is
\* present, else (input_tokens, output_tokens, their sum) when input_tokens
\* is present, an absent field counting 0; with neither, and with no usage,
\* it is (0, 0, 0).
C17_SchemaDetection ==
    (token_info # <<>> /\ response_content.kind = "object"
        /\ response_content.usage.kind \in {"dict", "absent"}) =>
        LET u == response_content.usage
            got == <<token_info[1].input_tokens, token_info[1].output_tokens,
                     token_info[1].total_tokens>>
        IN  /\ token_info[1].exc = "None"
            /\ got = IF u.kind = "dict" /\ u.prompt_tokens # Absent
                     THEN <<u.prompt_tokens, OrZero(u.completion_tokens),
                            OrZero(u.total_tokens)>>
                     ELSE IF u.kind = "dict" /\ u.input_tokens # Absent
                     THEN <<u.input_tokens, OrZero(u.output_tokens),
                            u.input_tokens + OrZero(u.output_tokens)>>
                     ELSE <<0, 0, 0>>

\* a parsed usage in the second schema with output_tokens absent
C17_Witness ==
    /\ token_info # <<>>
    /\ response_content.kind = "object"
    /\ response_content.usage.kind = "dict"
    /\ response_content.usage.prompt_tokens = Absent
    /\ response_content.usage.input_tokens = 3
    /\ response_content.usage.output_tokens = Absent
    /\ token_info[1].total_tokens = 3

(***************************************************************************)
(* SpecAnalyze: analyze_results on one list of outcomes.  Times are whole  *)
(* numbers of seconds.                                                     *)
(***************************************************************************)
MaxOutcomes == 3

\* successful outcomes that are fast, slower than 1200 and of latency 0;
\* failed ones of status 0 and latency 0, of status 500, and slower than 1200
AnalyzeOutcomes ==
    {RequestResult(0, 1, 100, 200, TRUE, "", "None", Tokens(1, 2, 3), 2),
     RequestResult(10, 2, 1500, 200, TRUE, "", "None", Tokens(2, 3, 5), 2),
     RequestResult(20, 1, 0, 200, TRUE, "", "None", Tokens(3, 4, 7), 2),
     RequestResult(30, 2, 0, 0, FALSE, "", "RetryError", Tokens(0, 0, 0), 0),
     RequestResult(5, 1, 50, 500, FALSE, "", "None", Tokens(0, 0, 0), 4),
     RequestResult(15, 2, 1300, 0, FALSE, "", "RetryError", Tokens(0, 0, 0), 0)}

AnalyzeInit ==
    /\ StageIdle
    /\ LoadIdle
    /\ StressIdle
    /\ StoreIdle
    /\ RenderIdle
    /\ PromptIdle
    /\ TokensIdle
    /\ outcomes \in Seqs(AnalyzeOutcomes, MaxOutcomes)
    /\ analyze_level \in 1..MaxConcurrent
    /\ analysis = <<>>
    /\ MonitorIdle
    /\ AnalyzerIdle

SpecAnalyze == AnalyzeInit /\ [][AnalyzeResults]_vars

\* the positions of the analyzed list, and those of its successes
All == 1..Len(outcomes)
Succeeded == {i \in All : outcomes[i].success}

\* C19: total = number of outcomes, successful = number with success,
\* failed = the rest, error_rate = failed / total, timeout_count = number of
\* outcomes of latency > 1200, successful or not; an empty list gives zeros
\* throughout, with the given C.
C19_CountAggregates ==
    analysis # <<>> =>
        LET a == analysis[1] IN
        /\ a.concurrent_level = analyze_level
        /\ a.total_requests = Len(outcomes)
        /\ a.successful_requests = Cardinality(Succeeded)
        /\ a.failed_requests = Len(outcomes) - Cardinality(Succeeded)
        /\ a.error_rate[2] > 0
        /\ a.error_rate[1] * Len(outcomes) = a.failed_requests * a.error_rate[2]
        /\ a.timeout_count = Cardinality({i \in All : outcomes[i].response_time > 1200})
        /\ outcomes = <<>> =>
              /\ a.error_rate[1] = 0
              /\ a.avg_response_time[1] = 0
              /\ a.min_response_time = 0
              /\ a.max_response_time = 0
              /\ a.p50_response_time[1] = 0
              /\ a.p95_response_time[1] = 0
              /\ a.p99_response_time[1] = 0
              /\ a.requests_per_second[1] = 0
              /\ a.total_test_time = 0
              /\ a.total_tokens = 0
              /\ a.avg_tokens_per_request[1] = 0
              /\ a.tokens_per_second[1] = 0

\* one successful outcome of latency 1500 was analyzed: timeout_count is 1
C19_Witness ==
    /\ analysis # <<>>
    /\ Len(outcomes) = 1
    /\ outcomes[1].success
    /\ outcomes[1].response_time = 1500
    /\ analysis[1].timeout_count = 1

\* the positions whose latency enters the response-time statistics
Timed == {i \in All : outcomes[i].success /\ outcomes[i].response_time > 0}

RECURSIVE LatencySum(_)
LatencySum(S) ==
    IF S = {} THEN 0
    ELSE LET i == CHOOSE j \in S : TRUE
         IN  outcomes[i].response_time + LatencySum(S \ {i})

\* C20: mean, min, max and the percentiles are taken over the outcomes with
\* success and latency > 0 (all 0 when there is none);
\* total_test_time = max(issue + latency) - min(issue) over all outcomes;
\* requests_per_second = successful_requests / total_test_time when that is
\* positive, else 0.
C20_TimingAggregates ==
    (analysis # <<>> /\ outcomes # <<>>) =>
        LET a == analysis[1]
            lat(i) == outcomes[i].response_time
        IN
        /\ Timed # {} =>
              /\ a.avg_response_time[1] * Cardinality(Timed)
                    = LatencySum(Timed) * a.avg_response_time[2]
              /\ \E i \in Timed : a.min_response_time = lat(i)
              /\ \A i \in Timed : a.min_response_time <= lat(i)
              /\ \E i \in Timed : a.max_response_time = lat(i)
              /\ \A i \in Timed : a.max_response_time >= lat(i)
              /\ \A q \in {a.p50_response_time, a.p95_response_time, a.p99_response_time} :
                    /\ a.min_response_time * q[2] <= q[1]
                    /\ q[1] <= a.max_response_time * q[2]
        /\ Timed = {} =>
              /\ a.avg_response_time[1] = 0
              /\ a.min_response_time = 0
              /\ a.max_response_time = 0
              /\ a.p50_response_time[1] = 0
              /\ a.p95_response_time[1] = 0
              /\ a.p99_response_time[1] = 0
        /\ \E i \in All : \E j \in All :
              /\ a.total_test_time = (outcomes[i].timestamp + lat(i)) - outcomes[j].timestamp
              /\ \A k \in All :
                    /\ outcomes[k].timestamp + lat(k) <= outcomes[i].timestamp + lat(i)
                    /\ outcomes[j].timestamp <= outcomes[k].timestamp
        /\ IF a.total_test_time > 0
           THEN a.requests_per_second[1] * a.total_test_time
                    = Cardinality(Succeeded) * a.requests_per_second[2]
           ELSE a.requests_per_second[1] = 0

\* analyzed: a success of latency 0 beside a success with a latency and a
\* failure of status 0 and latency 0
C20_Witness ==
    /\ analysis # <<>>
    /\ \E i, j, k \in All :
          /\ outcomes[i].success /\ outcomes[i].response_time = 0
          /\ outcomes[j].success /\ outcomes[j].response_time = 100
          /\ ~outcomes[k].success /\ outcomes[k].status_code = 0
                /\ outcomes[k].response_time = 0
    /\ analysis[1].avg_response_time = <<100, 1>>
    /\ analysis[1].requests_per_second = <<2, 100>>

(***************************************************************************)
(* SpecPercentile: analyze_results on successful outcomes whose latencies  *)
(* are 100, 200, 300 and 400 thousandths of a second (0.1 .. 0.4 s), with  *)
(* a failed outcome beside them.                                           *)
(***************************************************************************)
MaxLatencies == 4

PercentileOutcomes ==
    {RequestResult(0, 1, lat, 200, TRUE, "", "None", Tokens(1, 2, 3), 2) :
        lat \in {100, 200, 300, 400}}
    \cup {RequestResult(0, 1, 250, 500, FALSE, "", "None", Tokens(0, 0, 0), 4)}

PercentileInit ==
    /\ StageIdle
    /\ LoadIdle
    /\ StressIdle
    /\ StoreIdle
    /\ RenderIdle
    /\ PromptIdle
    /\ TokensIdle
    /\ outcomes \in Seqs(PercentileOutcomes, MaxLatencies)
    /\ analyze_level \in 1..MaxConcurrent
    /\ analysis = <<>>
    /\ MonitorIdle
    /\ AnalyzerIdle

SpecPercentile == PercentileInit /\ [][AnalyzeResults]_vars

\* the i-th smallest of the latencies that enter the statistics
Ranked(i) ==
    CHOOSE v \in {outcomes[j].response_time : j \in Timed} :
        /\ Cardinality({j \in Timed : outcomes[j].response_time < v}) < i
        /\ i <= Cardinality({j \in Timed : outcomes[j].response_time <= v})

\* x[f] * (1 - c) + x[f+1] * c for k = (L - 1) * p / 100, f = floor(k),
\* c = k - f, times 100; x[f] when f = L - 1 (positions counted from 0)
Interpolated(p) ==
    LET L == Cardinality(Timed)
        f == ((L - 1) * p) \div 100
        c100 == ((L - 1) * p) % 100
    IN  IF f = L - 1 THEN Ranked(f + 1) * 100
        ELSE Ranked(f + 1) * (100 - c100) + Ranked(f + 2) * c100

RECURSIVE TokenSum(_)
TokenSum(S) ==
    IF S = {} THEN 0
    ELSE LET i == CHOOSE j \in S : TRUE
         IN  outcomes[i].total_tokens + TokenSum(S \ {i})

\* C22: total_tokens is the sum of total_tokens over every outcome with
\* success = true, avg_tokens_per_request is that sum divided by
\* successful_requests (0 when there is none), and failed outcomes add
\* nothing.
C22_TokenAggregates ==
    analysis # <<>> =>
        LET a == analysis[1] IN
        /\ a.total_tokens = TokenSum(Succeeded)
        /\ a.avg_tokens_per_request[2] > 0
        /\ IF a.successful_requests > 0
           THEN a.avg_tokens_per_request[1] * a.successful_requests
                    = TokenSum(Succeeded) * a.avg_tokens_per_request[2]
           ELSE a.avg_tokens_per_request[1] = 0

(***************************************************************************)
(* SpecRing: the prober loop alone, followed long enough for a target's    *)
(* list to be cut twice.                                                   *)
(***************************************************************************)
MaxRingRounds == 1505

RingInit ==
    /\ StageIdle
    /\ LoadIdle
    /\ StressIdle
    /\ StoreIdle
    /\ RenderIdle
    /\ PromptIdle
    /\ TokensIdle
    /\ AnalyzeIdle
    /\ monitoring = FALSE
    /\ ping_results = <<>>
    /\ targets \in {<<TargetHost>>, <<TargetHostPort, TargetUrl>>}
    /\ method = "tcp"
    /\ monPc = "created"
    /\ ping_tasks = <<>>
    /\ rounds = 0
    /\ round_limit = MaxRingRounds
    /\ network \in {{<<"answer", 200>>}, {<<"timeout", 0>>}}
    /\ sessPc = "none"
    /\ stop_round = 0
    /\ stop_pc = ""
    /\ network_stats = <<>>
    /\ AnalyzerIdle

SpecRing == RingInit /\ [][ProberNext]_vars

\* C23: a target's list never holds more than 1000 samples once a step of
\* the prober loop is over; a step that changes a list appends one sample,
\* and when that makes more than 1000 the list becomes the latest 500 of
\* them, in their order.
C23_RingBound ==
    /\ [](\A t \in DOMAIN ping_results : Len(ping_results[t]) <= 1000)
    /\ [][\A t \in DOMAIN ping_results :
            (t \in DOMAIN ping_results' /\ ping_results'[t] # ping_results[t]) =>
                /\ ping_results'[t] # <<>>
                /\ LET new == ping_results'[t]
                       full == Append(ping_results[t], new[Len(new)])
                   IN  new = IF Len(full) > 1000
                             THEN SubSeq(full, Len(full) - 499, Len(full))
                             ELSE full]_vars

\* the list was cut a first time: it holds the samples of rounds 502..1001
C23_Witness ==
    \E t \in DOMAIN ping_results :
        /\ Len(ping_results[t]) = 500
        /\ ping_results[t][1].timestamp = 502
        /\ ping_results[t][500].timestamp = 1001

(***************************************************************************)
(* SpecProbe: a session of main.py around the prober: the task is created, *)
(* the load test runs, then stop_monitoring, one second of sleep, cancel   *)
(* and get_all_stats.  A probe may take up to ProbeTimeout seconds, so it  *)
(* may end before or after that second is over.                            *)
(***************************************************************************)
MaxRounds == 2
MaxTargets == 2

TargetKinds ==
    {TargetHost, TargetHostPort, TargetBadPort, TargetUrl, TargetHttpPrefixed}

\* lists of distinct targets
TargetLists ==
    {q \in Seqs(TargetKinds, MaxTargets) :
        q # <<>> /\ \A i, j \in 1..Len(q) : q[i] = q[j] => i = j}

ProbeInit ==
    /\ StageIdle
    /\ LoadIdle
    /\ StressIdle
    /\ StoreIdle
    /\ RenderIdle
    /\ PromptIdle
    /\ TokensIdle
    /\ AnalyzeIdle
    /\ monitoring = FALSE
    /\ ping_results = <<>>
    /\ targets \in TargetLists
    /\ method \in {"tcp", "http"}
    /\ monPc = "created"
    /\ ping_tasks = <<>>
    /\ rounds = 0
    /\ round_limit = MaxRounds
    /\ network = Endings
    /\ sessPc = "testing"
    /\ stop_round = 0
    /\ stop_pc = ""
    /\ network_stats = <<>>
    /\ AnalyzerIdle

SpecProbe == ProbeInit /\ [][MonitorNext]_vars

\* the targets whose ping_host call yields a sample rather than raising
Sampled == {i \in 1..Len(targets) : PortParsed(targets[i]) \/ method = "http"
                                      \/ targets[i].url \/ targets[i].http
                                      \/ ~targets[i].colon}

C25_ProbeErrorCaptured ==
    [][(monPc = "gather" /\ monPc' # "gather" /\ monPc' # "cancelled") =>
        /\ monPc' = "sleep"
        /\ \A i \in 1..Len(targets) :
              LET old == ping_results[targets[i].text]
                  new == ping_results'[targets[i].text]
              IN  /\ Len(new) = Len(old) + 1
                  /\ SubSeq(new, 1, Len(old)) = old
                  /\ new[Len(new)].timestamp = rounds
                  /\ new[Len(new)].success =
                        (ping_tasks[i].raises = "None" /\ ping_tasks[i].success)]_vars

(***************************************************************************)
(* SpecAtomic: save_test_session calls of which some raise inside the      *)
(* `with` block: a request whose prompt cannot be bound, or a network      *)
(* stats object without the attributes read.                               *)
(***************************************************************************)
AtomicStages ==
    {StoreStage(1, <<ReqOk(1, 100)>>, 100, 3),
     StoreStage(2, <<ReqOk(2, 200), ReqOk(UnbindablePrompt, 100)>>, 150, 6),
     StoreStage(2, <<ReqStatus500(2)>>, 0, 0)}

NetworkArgs ==
    {<<>>, <<HostStats("h1", 2, 1, TRUE)>>,
     <<HostStats("h1", 2, 1, TRUE), HostStats("h2", 1, 1, FALSE)>>}

AtomicNext ==
    \E sid \in SessionIds, load_results \in Seqs(AtomicStages, MaxStages),
       net \in NetworkArgs :
        SaveTestSession(sid, load_results, net)

SpecAtomic == StoreInit /\ [][AtomicNext]_vars

\* C26: a save_test_session call that raises leaves every table, and so
\* every answer of the store, as it was before the call: none of the rows it
\* inserted before raising is visible.
C26_AtomicSave ==
    [][(save_calls' # save_calls /\ lastSave'.raises # "None") =>
        /\ test_sessions' = test_sessions
        /\ load_test_results' = load_test_results
        /\ request_results' = request_results
        /\ network_stats_table' = network_stats_table
        /\ session_seq' = session_seq]_vars

\* after a successful save of session s1, a second save of s1 raised at the
\* last request of its second stage, after the header, two stage rows and
\* two request rows had been inserted
C26_Witness ==
    /\ save_calls = 2
    /\ lastSave.session_id = "s1"
    /\ lastSave.raises = "ProgrammingError"
    /\ Len(lastSave.load_results) = 2
    /\ Len(lastSave.load_results[1].results) = 1
    /\ Bindable(lastSave.load_results[1].results[1])
    /\ Len(lastSave.load_results[2].results) = 2
    /\ ~Bindable(lastSave.load_results[2].results[2])
    /\ \E h \in Range(test_sessions) : h.session_id = "s1"


(***************************************************************************)
(* SpecImpact: one session, saved once as main.py saves it, with up to     *)
(* MaxImpactStages stages, and the analyses asked of the store before and  *)
(* after.  The request lists of the stages play no part in the analyses    *)
(* and are left empty.                                                     *)
(***************************************************************************)
MaxImpactStages == 3

\* a stage of n successful requests
ImpactStage(C, n, rps, avg) ==
    [concurrent_level |-> C, total_requests |-> n, successful_requests |-> n,
     failed_requests |-> 0, avg_response_time |-> avg,
     requests_per_second |-> rps, total_tokens |-> 0, results |-> <<>>]

ImpactStages ==
    {ImpactStage(1, 1, 10, 100), ImpactStage(5, 8, 40, 200),
     ImpactStage(10, 15, 30, 500), ImpactStage(2, 1, 10, 10)}

ImpactSave ==
    \E load_results \in Seqs(ImpactStages, MaxImpactStages) :
        /\ save_calls = 0
        /\ SaveTestSession("s1", load_results, <<>>)

ImpactNext ==
    \/ ImpactSave
    \/ \E sid \in SessionIds : AnalyzeConcurrencyImpact(sid)
    \/ \E sid \in SessionIds : GenerateSummaryStats(sid)
    \/ AnalyzePerformanceTrends
    \/ CompareApis

SpecImpact == StoreInit /\ [][ImpactNext]_vars

\* the analysis of a session that has stage rows
ImpactAnswered ==
    /\ query.name = "analyze_concurrency_impact"
    /\ answer.raises = "None"
    /\ ~answer.message

\* the rows are in the order of their concurrency levels
ByLevel(data) ==
    \A i \in 2..Len(data) :
        data[i - 1].concurrent_level <= data[i].concurrent_level

\* the i with rps[i] < 0.95 * rps[i-1], counted from 1
Declines(data) ==
    {i \in 2..Len(data) :
        100 * data[i].requests_per_second
            < 95 * data[i - 1].requests_per_second}

\* C27: for a session of two or more stages, ordered by concurrency level,
\* analyze_concurrency_impact reports as throughput_decline_point the stage
\* before the first stage whose requests_per_second is below 0.95 of its
\* predecessor's, and reports none when there is no such stage.
C27_DeclinePoint ==
    (ImpactAnswered /\ Len(answer.value[1].data) >= 2) =>
        LET data == answer.value[1].data
            point == answer.value[1].throughput_decline_point
        IN  /\ ByLevel(data)
            /\ IF Declines(data) = {} THEN point = <<>>
               ELSE \E i \in Declines(data) :
                        /\ \A k \in Declines(data) : i <= k
                        /\ point = <<data[i - 1]>>

\* score(r) <= score(o) for score = rps / (mean latency + 0.1 s)
ScoreAtMost(r, o) ==
    r.requests_per_second * (o.avg_response_time + 100)
        <= o.requests_per_second * (r.avg_response_time + 100)

\* the stages (C, rps, latency) = (1, 10, 0.1), (5, 40, 0.2), (10, 30, 0.5)
ExampleStages(data) ==
    /\ Len(data) = 3
    /\ \A i \in 1..3 :
           <<data[i].concurrent_level, data[i].requests_per_second,
             data[i].avg_response_time>>
               = <<<<1, 10, 100>>, <<5, 40, 200>>, <<10, 30, 500>>>>[i]

\* C28: analyze_concurrency_impact reports as optimal_concurrency a stage
\* whose score rps / (mean latency + 0.1) no stage exceeds, as max_throughput
\* a stage of greatest rps and as min_latency a stage of least mean latency;
\* for the stages (1, 10, 0.1), (5, 40, 0.2), (10, 30, 0.5) the optimal stage
\* is the one of concurrency 5.
C28_OptimalConcurrency ==
    ImpactAnswered =>
        LET v == answer.value[1]
            rows == Range(v.data)
        IN  /\ v.optimal_concurrency \in rows
            /\ \A r \in rows : ScoreAtMost(r, v.optimal_concurrency)
            /\ v.max_throughput \in rows
            /\ \A r \in rows : r.requests_per_second
                                   <= v.max_throughput.requests_per_second
            /\ v.min_latency \in rows
            /\ \A r \in rows : v.min_latency.avg_response_time
                                   <= r.avg_response_time
            /\ ExampleStages(v.data) =>
                   v.optimal_concurrency.concurrent_level = 5

\* the three stages of the example were saved and analysed: the stage of
\* concurrency 5 is reported as optimal and as the one of greatest rps, the
\* stage of concurrency 1 as the one of least latency
C28_Witness ==
    /\ ImpactAnswered
    /\ ExampleStages(answer.value[1].data)
    /\ answer.value[1].optimal_concurrency.concurrent_level = 5
    /\ answer.value[1].max_throughput.concurrent_level = 5
    /\ answer.value[1].min_latency.concurrent_level = 1

\* what the last call was asked about has no row in the store
AskedOfNothing ==
    IF query.name \in {"generate_summary_stats", "analyze_concurrency_impact"}
    THEN /\ \A h \in Range(test_sessions) : h.session_id # query.session_id
         /\ \A r \in Range(load_test_results) : r.session_id # query.session_id
         /\ \A q \in Range(request_results) : q.session_id # query.session_id
    ELSE /\ query.name \in {"analyze_performance_trends", "compare_apis"}
         /\ test_sessions = <<>>

\* C29: generate_summary_stats and analyze_concurrency_impact of a
\* session_id without rows, and analyze_performance_trends and compare_apis
\* on an empty store, raise nothing and return the no-data message.
C29_EmptyInputs ==
    AskedOfNothing => (answer.raises = "None" /\ answer.message)

\* the idle periods of a whole run over k levels with ramp-up R and
\* cool-down D, in order: for each level the ramp-up if R > 0, then, unless
\* the level is the last, the cool-down if D > 0
RECURSIVE IdlesUpTo(_, _, _, _)
IdlesUpTo(i, k, R, D) ==
    IF i = 0 THEN <<>>
    ELSE IdlesUpTo(i - 1, k, R, D)
             \o (IF R > 0 THEN <<<<"ramp", i>>>> ELSE <<>>)
             \o (IF D > 0 /\ i < k THEN <<<<"cool", i>>>> ELSE <<>>)

NoRequestAbout ==
    \A t \in Tasks : tpc[t] \notin {"scheduled", "running", "post", "backoff"}

\* C30: run_load_test idles, for each level in order, R seconds before the
\* stage iff R > 0, the first stage included, then runs and analyzes the
\* stage, then idles D seconds iff D > 0 and the level is not the last; no
\* cool-down follows the last level and no request is in flight or waiting
\* during an idle period.
C30_IdlePlacement ==
    LET k == Len(concurrent_levels)
        all == IdlesUpTo(k, k, ramp_up_time, cool_down_time)
    IN  /\ Len(idles) <= Len(all)
        /\ idles = SubSeq(all, 1, Len(idles))
        /\ loadPc = "done" => idles = all
        /\ loadPc = "ramp" =>
               /\ idles[Len(idles)] = <<"ramp", level_i>>
               /\ Len(loadResults) = level_i - 1
               /\ NoRequestAbout
        /\ loadPc = "stage" =>
               /\ Len(loadResults) = level_i - 1
               /\ ramp_up_time > 0 <=> <<"ramp", level_i>> \in Range(idles)
               /\ <<"cool", level_i>> \notin Range(idles)
        /\ loadPc = "cool" =>
               /\ idles[Len(idles)] = <<"cool", level_i>>
               /\ Len(loadResults) = level_i
               /\ level_i < k
               /\ NoRequestAbout

\* a run over two levels with R = 5 and D = 10 has returned: it idled
\* before the first stage, after it, and before the second, and not after
\* the second; both stages had requests
C30_Witness ==
    /\ loadPc = "done"
    /\ Len(concurrent_levels) = 2
    /\ requests_per_level > 0
    /\ idles = <<<<"ramp", 1>>, <<"cool", 1>>, <<"ramp", 2>>>>
    /\ Len(loadResults) = 2

(***************************************************************************)
(* Later claims about one stage run (SpecStage).                           *)
(***************************************************************************)
\* a task of the stage that has been issued and has not completed
Pending(t) == tpc[t] \in {"scheduled", "running", "post", "backoff"}

\* C31: the N requests of a stage are dispatched in consecutive batches of
\* min(2 * C, 100) tasks, the last one possibly smaller; while a batch is
\* awaited every request before it has completed and no request after it
\* has been issued, and between two batches no request is in flight.
C31_BatchedDispatch ==
    LET size == IF 2 * concurrent_level <= 100 THEN 2 * concurrent_level
                ELSE 100
        last == IF batch_i + size <= total_requests THEN batch_i + size
                ELSE total_requests
    IN  runPc \in {"dispatch", "gather"} =>
            /\ batch_i % size = 0
            /\ \A t \in 1..total_requests :
                   /\ t <= batch_i /\ batch_i <= total_requests =>
                          tpc[t] = "done"
                   /\ t > last => tpc[t] = "created"
                   /\ (runPc = "gather" /\ batch_i < t /\ t <= last) =>
                          (Pending(t) \/ tpc[t] = "done")
                   /\ runPc = "dispatch" => ~Pending(t)
            /\ runPc = "dispatch" => InFlight = {}

\* the second batch of a stage of three requests at concurrency 1 is
\* awaited: the two requests of the first batch are done, the third is in
\* flight
C31_Witness ==
    /\ runPc = "gather"
    /\ concurrent_level = 1
    /\ total_requests = 3
    /\ batch_i = 2
    /\ tpc[1] = "done"
    /\ tpc[2] = "done"
    /\ tpc[3] = "post"

\* C32: when a progress callback is set, a stage of N requests calls it
\* exactly N times, after each recorded outcome, with (1, N), (2, N), ...,
\* (N, N) in that order; when none is set nothing is called, and in both
\* cases the stage returns its N outcomes.
C32_ProgressCallback ==
    /\ ~progress_callback => progress_calls = <<>>
    /\ progress_callback =>
           /\ Len(progress_calls) = Len(results)
           /\ \A k \in 1..Len(progress_calls) :
                  progress_calls[k] = <<k, total_requests>>
    /\ runPc = "returned" =>
           /\ Len(results) = total_requests
           /\ progress_callback => Len(progress_calls) = total_requests

\* a stage of three requests at concurrency 1, with a callback set, has
\* returned: the callback was called twice after the first batch and once
\* after the second, the last time with (3, 3)
C32_Witness ==
    /\ runPc = "returned"
    /\ progress_callback
    /\ concurrent_level = 1
    /\ total_requests = 3
    /\ progress_calls = <<<<1, 3>>, <<2, 3>>, <<3, 3>>>>

\* C33: when an execution raised instead of returning an outcome, the
\* collected list has in its place an outcome with empty prompt, latency 0,
\* status 0, success = false and the exception's text as error_message; the
\* other results are collected as they are, the later batches still run, and
\* every element of the list is an outcome.
C33_ExceptionSynthesized ==
    /\ \A i \in 1..Len(results) :
           /\ results[i].raises = "None"
           /\ IF tres[i].raises = "None" THEN results[i] = tres[i]
              ELSE /\ results[i].prompt = 0
                   /\ results[i].response_time = 0
                   /\ results[i].status_code = 0
                   /\ results[i].success = FALSE
                   /\ results[i].error_message = tres[i].raises
                   /\ results[i].response_content = ""
                   /\ results[i].total_tokens = 0
                   /\ results[i].content_length = 0
    /\ runPc = "returned" => Len(results) = total_requests

\* a stage of three requests at concurrency 1 has returned: the first
\* execution raised in the first batch, the second was collected as it
\* returned, and the third, of the second batch, succeeded
C33_Witness ==
    /\ runPc = "returned"
    /\ concurrent_level = 1
    /\ total_requests = 3
    /\ tres[1].raises = "InternalError"
    /\ results[1].error_message = "InternalError"
    /\ results[2] = tres[2]
    /\ results[3].success

(***************************************************************************)
(* Later claims about one stress run (SpecStress).                         *)
(***************************************************************************)
Executing == {w \in Workers : wpc[w] = "exec"}

SummaryNext ==
    \/ StoreNext
    \/ \E sid \in SessionIds : GenerateSummaryStats(sid)

SpecSummary == StoreInit /\ [][SummaryNext]_vars

\* the counts of the groups of an error distribution, added up
RECURSIVE GroupTotal(_)
GroupTotal(groups) ==
    IF groups = {} THEN 0
    ELSE LET g == CHOOSE x \in groups : TRUE
         IN  g[2] + GroupTotal(groups \ {g})

\* C35: the error distribution of a summary has one group per error_message
\* and covers every failed attempt of the session: the counts of its groups
\* add up to the session's number of failed requests, the attempts that
\* failed with a non-2xx status included.
C35_ErrorDistributionCovers ==
    (query.name = "generate_summary_stats" /\ answer.raises = "None") =>
        LET summary == answer.value[1]
        IN  /\ \A g, h \in summary.error_distribution : g[1] = h[1] => g = h
            /\ GroupTotal(summary.error_distribution) = summary.failed_requests

\* whether a string leaf of a body, at any depth, has the text p
RECURSIVE Mentions(_, _)
Mentions(obj, p) ==
    IF obj.kind \in {"dict", "list"}
    THEN \E i \in DOMAIN obj.items : Mentions(obj.items[i], p)
    ELSE obj.kind = "str" /\ \E i \in DOMAIN obj.text : obj.text[i] = p

\* C36: no call of format_url, format_headers or format_request_body changes
\* the profile's base_url, endpoints, headers or request_format, and a
\* rendered body has the text of no prompt but the one it was rendered for.
C36_RenderLeavesProfile ==
    /\ [][/\ request_format' = request_format
          /\ profile' = profile]_vars
    /\ [](rendered_body # <<>> =>
              \A p \in PromptTexts \ {render_prompt} :
                  ~Mentions(rendered_body[1], p))

\* after a URL and a body for "hello", a body for "bye" was rendered from a
\* template with a {prompt} leaf: it has "bye" where the earlier had "hello"
C36_Witness ==
    /\ render_log = <<<<"format_url", "chat">>,
                      <<"format_request_body", "hello">>,
                      <<"format_request_body", "bye">>>>
    /\ Mentions(request_format, "{prompt}")
    /\ Mentions(rendered_body[1], "bye")

(***************************************************************************)
(* SpecSession: the session flow of main.py around the store: one          *)
(* run_load_test call, then save_test_session with what it returned.       *)
(***************************************************************************)
\* a Stage Result as the store model keeps it: the mean latency and the
\* throughput in whole units, which are 0 exactly when the analyzed ones are
StageAsSaved(st) ==
    [concurrent_level |-> st.concurrent_level,
     total_requests |-> st.total_requests,
     successful_requests |-> st.successful_requests,
     failed_requests |-> st.failed_requests,
     avg_response_time |-> st.avg_response_time[1] \div st.avg_response_time[2],
     requests_per_second |->
         st.requests_per_second[1] \div st.requests_per_second[2],
     total_tokens |-> st.total_tokens, results |-> st.results]

\* database.save_test_session(session_id, ..., load_results=results, ...)
SessionSave ==
    /\ loadPc = "done"
    /\ save_calls = 0
    /\ SaveTestSession("s1", [i \in 1..Len(loadResults) |->
                                 StageAsSaved(loadResults[i])], <<>>)

SessionNext ==
    \/ LoadNext
    \/ SessionSave

SpecSession == LoadInit /\ [][SessionNext]_vars

\* every attempt of every stage of the run failed without a status
EveryAttemptFailed ==
    /\ Len(concurrent_levels) >= 1
    /\ requests_per_level >= 1
    /\ \A i \in 1..Len(loadResults) :
           \A j \in 1..Len(loadResults[i].results) :
               /\ ~loadResults[i].results[j].success
               /\ loadResults[i].results[j].status_code = 0

\* C37: when every attempt of every stage fails, run_load_test still runs
\* every level, and save_test_session of what it returned raises nothing and
\* stores the header row and one stage row per level.
C37_FailedSessionPersisted ==
    /\ (loadPc = "done" /\ EveryAttemptFailed) =>
           Len(loadResults) = Len(concurrent_levels)
    /\ (loadPc = "done" /\ EveryAttemptFailed /\ save_calls = 1) =>
           /\ lastSave.raises = "None"
           /\ \E h \in Range(test_sessions) : h.session_id = "s1"
           /\ Len(SelectSeq(load_test_results, LAMBDA r : r.session_id = "s1"))
                  = Len(concurrent_levels)

(***************************************************************************)
(* The prompt a send_single_request call draws (client.py l.129) and the   *)
(* cursor of the prompt source over a stage.                               *)
(***************************************************************************)
\* the tasks whose send_single_request call has begun
Called == {t \in Tasks : texec[t] = "real" /\ tpc[t] \in {"post", "backoff", "done"}}

\* the calls of send_single_request a stage makes
Sends == {t \in 1..total_requests : texec[t] = "real"}

\* C38: every send_single_request call draws one prompt before its first
\* attempt and keeps it over its retries: while a stage runs the cursor is
\* the cursor the stage began with plus the number of calls begun, modulo
\* the number of prompts, whatever became of the calls; the prompt of a call
\* is one of the prompts from the stage's first cursor on; the outcome the
\* call returns carries that prompt; and when the stage has returned the
\* cursor is the first cursor plus the number of calls, modulo L
C38_OnePromptPerCall ==
    /\ runPc # "idle" =>
          current_index = (first_index + Cardinality(Called)) % Len(prompts)
    /\ \A t \in Called :
          /\ \E k \in 0..(Cardinality(Called) - 1) :
                 tprompt[t] = prompts[((first_index + k) % Len(prompts)) + 1]
          /\ tpc[t] = "done" => tres[t].prompt = tprompt[t]
    /\ runPc = "returned" =>
          /\ current_index = (first_index + Cardinality(Sends)) % Len(prompts)
          /\ \A t \in Sends : results[t].prompt = tprompt[t]

\* a stage of three calls begun at cursor 1 of two prompts has returned with
\* the cursor at 0: one call was answered at its first attempt, one after a
\* retry, and one failed after three attempts
C38_Witness ==
    /\ runPc = "returned"
    /\ total_requests = 3
    /\ Sends = 1..3
    /\ first_index = 1
    /\ current_index = 0
    /\ \E t \in Sends : attempts[t] = 1 /\ results[t].success
    /\ \E t \in Sends : attempts[t] = 2 /\ results[t].success
    /\ \E t \in Sends : attempts[t] = 3 /\ results[t].error_message = "RetryError"

(***************************************************************************)
(* SpecTerm: a stage run, or a load run, under the scheduling of the event *)
(* loop: a task that is ready is run, a sleep ends, and an execution that  *)
(* was started returns or raises.                                          *)
(***************************************************************************)
TermInit ==
    \/ StageInit /\ ~progress_callback /\ render_ok /\ current_index = 0
    \/ LoadInit /\ requests_per_level <= 1

TermFair ==
    /\ WF_vars(Dispatch) /\ WF_vars(Collect) /\ WF_vars(Return)
    /\ \A t \in Tasks :
          /\ WF_vars(TaskStart(t))
          /\ WF_vars(ExecutorRaises(t))
          /\ WF_vars(PostResponds(t) \/ PostRaises(t))
          /\ WF_vars(BackoffEnds(t))
    /\ WF_vars(LoadIter) /\ WF_vars(RampEnds) /\ WF_vars(StageAnalyzed)
    /\ WF_vars(CoolEnds) /\ WF_vars(LoadReturn)

SpecTerm == TermInit /\ [][LoadNext]_vars /\ TermFair

\* C39: a stage that was entered returns, with every permit of its
\* semaphore given back and no task in flight, and a load run that was
\* begun returns
C39_Terminates ==
    /\ (runPc \in {"dispatch", "gather"})
           ~> (runPc = "returned" /\ semaphore = concurrent_level /\ InFlight = {})
    /\ (loadPc \in {"loop", "ramp", "stage", "cool"}) ~> (loadPc = "done")

\* a stage of three requests at concurrency 1, two batches, has returned
\* with its permit back: one execution raised, one call failed after its
\* retries and one was answered
C39_Witness ==
    /\ runPc = "returned"
    /\ concurrent_level = 1
    /\ total_requests = 3
    /\ semaphore = 1
    /\ \E t \in Tasks : texec[t] = "raising"
    /\ \E t \in Tasks : tres[t].error_message = "RetryError"
    /\ \E t \in Tasks : tres[t].success

\* C40: once stop_monitoring has been called the flag stays false and the
\* prober begins no further round, wherever the prober task was when the
\* call was made, the task that has not yet run its first step included:
\* the round in flight and its interval sleep are all that is left before
\* the loop's test ends it.
C40_StopEndsLoop ==
    /\ [](sessPc # "testing" => ~monitoring)
    /\ [][sessPc # "testing" => rounds' = rounds]_vars
=============================================================================
